---- MODULE Spec2Model ----
(***************************************************************************)
(* A state-machine model of the structuralglass package:                   *)
(*   layers.py              GlassPly, Interlayer                           *)
(*   equiv_thick_models.py  MonolithicMethod, NonCompositeMethod,          *)
(*                          ShearTransferCoefMethod                        *)
(*   helpers.py             Roarks4side                                    *)
(*   demands.py             IGUWindDemands                                 *)
(*                                                                         *)
(* Magnitudes are exact numbers <<r, n, d>> standing for (n/d)^(1/r) with  *)
(* d > 0, gcd(n, d) = 1 and r in 1..3; r = 1 is a rational.  Lengths are   *)
(* in mm and pressures in GPa.  The dimension of a quantity is carried     *)
(* only where the code checks it (ureg.check).  None is <<>>.              *)
(***************************************************************************)
EXTENDS Integers, Sequences, FiniteSets, TLC

VARIABLES
    layers,      \* layer id -> the GlassPly / Interlayer object
    pkg,         \* package id -> the laminate bound to that name
    pkgAttempt,  \* the unbound instance a laminate constructor that raised left
    igu,         \* the IGUWindDemands bound to the name "panel"
    iguAttempt,  \* the unbound instance an IGUWindDemands(...) that raised left
    registry,    \* _interLayer_registry: product name -> table
    layerAttempt,\* the unbound instance a layer constructor that raised left
    rk4s,        \* the Roarks4side bound to the name "rk4s"
    _glass_type_registry, \* glass type name -> its parameters
    _glass_type_abbr,     \* abbreviation -> glass type name
    held,        \* the value the last call returned to the client
    err,         \* the exception raised by the last call, or NoError
    last         \* the last call and its arguments

\* the objects of helpers.py and glass_types.py
aux == <<rk4s, _glass_type_registry, _glass_type_abbr, held>>

vars == <<layers, pkg, pkgAttempt, igu, iguAttempt, registry, layerAttempt,
         aux, err, last>>

-----------------------------------------------------------------------------
(* Bounds of the model *)

MaxPlyListLen == 3
MaxBuildupLen == 2

-----------------------------------------------------------------------------
(* Exact arithmetic *)

None == <<>>

Abs(n) == IF n < 0 THEN -n ELSE n

RECURSIVE GCD(_, _)
GCD(a, b) == IF b = 0 THEN a ELSE GCD(b, a % b)

\* the rational n/d in lowest terms, d /= 0
R(n, d) ==
    LET g == GCD(Abs(n), Abs(d))
        s == IF d < 0 THEN -1 ELSE 1
    IN  <<1, s * (n \div g), s * (d \div g)>>

Num(n) == <<1, n, 1>>
Zero == Num(0)
One == Num(1)

IsRat(x) == x[1] = 1
IsZero(x) == x[2] = 0
IsNeg(x) == x[2] < 0

RAdd(x, y) ==
    LET g == GCD(x[3], y[3])
        l == (x[3] \div g) * y[3]
    IN  R(x[2] * (l \div x[3]) + y[2] * (l \div y[3]), l)

RNeg(x) == <<1, -x[2], x[3]>>

RSub(x, y) == RAdd(x, RNeg(y))

RMul(x, y) ==
    LET g1 == GCD(Abs(x[2]), y[3])
        g2 == GCD(Abs(y[2]), x[3])
    IN  R((x[2] \div g1) * (y[2] \div g2), (x[3] \div g2) * (y[3] \div g1))

RInv(x) == R(x[3], x[2])

RLt(x, y) == x[2] * y[3] < y[2] * x[3]

RECURSIVE IPow(_, _)
IPow(b, k) == IF k = 0 THEN 1 ELSE b * IPow(b, k - 1)

RPow(x, k) == <<1, IPow(x[2], k), IPow(x[3], k)>>

\* the largest m with m^k <= n, searched between lo and hi
RECURSIVE IRootIn(_, _, _, _)
IRootIn(n, k, lo, hi) ==
    IF lo >= hi THEN lo
    ELSE LET mid == (lo + hi + 1) \div 2
         IN  IF IPow(mid, k) <= n THEN IRootIn(n, k, mid, hi)
             ELSE IRootIn(n, k, lo, mid - 1)

RootCap(k) == IF k = 2 THEN 46340 ELSE 1290

IRoot(n, k) == IRootIn(n, k, 0, IF n < RootCap(k) THEN n ELSE RootCap(k))

\* x ** (1/k) for a rational x >= 0; a rational when x is a perfect k-th power
Root(x, k) ==
    LET rn == IRoot(x[2], k)
        rd == IRoot(x[3], k)
    IN  IF k = 1 THEN x
        ELSE IF IPow(rn, k) = x[2] /\ IPow(rd, k) = x[3] THEN <<1, rn, rd>>
        ELSE <<k, x[2], x[3]>>

\* x ** k for k in 1..4; the radicand when x is a k-th root
Pow(x, k) ==
    IF x[1] = 1 THEN RPow(x, k)
    ELSE IF x[1] = k THEN <<1, x[2], x[3]>>
    ELSE Root(RPow(<<1, x[2], x[3]>>, k), x[1])

\* x * y; both rational, or roots of one index (a rational joins any root)
Mul(x, y) ==
    IF x[1] = 1 /\ y[1] = 1 THEN RMul(x, y)
    ELSE LET k == IF x[1] = 1 THEN y[1] ELSE x[1]
         IN  Root(RMul(Pow(x, k), Pow(y, k)), k)

Inv(x) == IF x[1] = 1 THEN RInv(x) ELSE <<x[1], x[3], x[2]>>

Div(x, y) == Mul(x, Inv(y))

RECURSIVE RSum(_)
RSum(s) == IF s = <<>> THEN Zero ELSE RAdd(Head(s), RSum(Tail(s)))

-----------------------------------------------------------------------------
(* Double arithmetic *)

(* Python's float is the IEEE 754 binary64: a sign, a mantissa of 53 bits   *)
(* and an exponent, every operation rounded to the nearest double, a tie to *)
(* the even mantissa.  The magnitudes of the model are far from the         *)
(* smallest and the largest double, so that neither subnormal numbers nor   *)
(* infinities are modelled.  A natural number is the sequence of its limbs  *)
(* in base 2^14, the low limb first and the high limb not zero; zero is     *)
(* <<>>.                                                                    *)

RECURSIVE NTrim(_)
NTrim(a) ==
    IF a # <<>> /\ a[Len(a)] = 0 THEN NTrim(SubSeq(a, 1, Len(a) - 1)) ELSE a

NAt(a, i) == IF i <= Len(a) THEN a[i] ELSE 0

\* the limbs of a sequence of column sums, as a tuple
RECURSIVE NCarryFrom(_, _, _)
NCarryFrom(c, i, carry) ==
    IF i > Len(c)
    THEN IF carry = 0 THEN <<>>
         ELSE <<carry % 2^14>> \o NCarryFrom(c, i, carry \div 2^14)
    ELSE <<(c[i] + carry) % 2^14>>
             \o NCarryFrom(c, i + 1, (c[i] + carry) \div 2^14)

NCarry(c) == NTrim(NCarryFrom(c, 1, 0))

\* the natural number n, 0 <= n < 2^31
NOfInt(n) == NCarry(<<n>>)

NAdd(a, b) ==
    NCarry([i \in 1..(IF Len(a) < Len(b) THEN Len(b) ELSE Len(a)) |->
                NAt(a, i) + NAt(b, i)])

\* a - b for a >= b
RECURSIVE NSubFrom(_, _, _, _)
NSubFrom(a, b, i, borrow) ==
    IF i > Len(a) THEN <<>>
    ELSE LET s == a[i] - NAt(b, i) - borrow
         IN  <<IF s < 0 THEN s + 2^14 ELSE s>>
                 \o NSubFrom(a, b, i + 1, IF s < 0 THEN 1 ELSE 0)

NSub(a, b) == NTrim(NSubFrom(a, b, 1, 0))

RECURSIVE NLessAt(_, _, _)
NLessAt(a, b, i) ==
    IF i = 0 THEN FALSE
    ELSE IF a[i] # b[i] THEN a[i] < b[i]
    ELSE NLessAt(a, b, i - 1)

NLess(a, b) == IF Len(a) # Len(b) THEN Len(a) < Len(b) ELSE NLessAt(a, b, Len(a))

\* the column k of the product a * b; a factor has at most seven limbs
RECURSIVE NColumn(_, _, _, _)
NColumn(a, b, k, i) ==
    IF i > Len(a) \/ i > k THEN 0
    ELSE a[i] * NAt(b, k + 1 - i) + NColumn(a, b, k, i + 1)

NMul(a, b) ==
    IF a = <<>> \/ b = <<>> THEN <<>>
    ELSE NCarry([k \in 1..(Len(a) + Len(b) - 1) |-> NColumn(a, b, k, 1)])

\* a * k for a limb k
NScale(a, k) == NCarry([i \in 1..Len(a) |-> a[i] * k])

\* a * 2^s
NShl(a, s) ==
    NCarry([i \in 1..(s \div 14) |-> 0] \o [i \in 1..Len(a) |-> a[i] * 2^(s % 14)])

\* a \div 2^s
NShr(a, s) ==
    NCarry([i \in 1..(Len(a) - s \div 14) |->
                NAt(a, i + s \div 14) \div 2^(s % 14)
                    + (NAt(a, i + s \div 14 + 1) % 2^(s % 14)) * 2^(14 - (s % 14))])

\* a % 2^s /= 0
NLowBits(a, s) ==
    \/ \E i \in 1..(s \div 14) : NAt(a, i) # 0
    \/ NAt(a, s \div 14 + 1) % 2^(s % 14) # 0

\* the bit i of a, the low bit being the bit 0
NBit(a, i) == (NAt(a, i \div 14 + 1) \div 2^(i % 14)) % 2

RECURSIVE IBitLen(_)
IBitLen(n) == IF n = 0 THEN 0 ELSE 1 + IBitLen(n \div 2)

NBitLen(a) == IF a = <<>> THEN 0 ELSE 14 * (Len(a) - 1) + IBitLen(a[Len(a)])

\* a - b for two natural numbers a few units apart
NDiff(a, b) ==
    IF a = b THEN 0
    ELSE IF NLess(a, b) THEN -NSubFrom(b, a, 1, 0)[1]
    ELSE NSubFrom(a, b, 1, 0)[1]

\* the double s * m * 2^e: m is <<>> for zero and has 53 bits otherwise
Double(s, m, e) == [s |-> s, m |-> m, e |-> e]

DZero == Double(1, <<>>, 0)

\* no double: the quotient by zero, which Python raises ZeroDivisionError for
DNaN == Double(0, <<>>, 0)

\* the double s * n * 2^e for n of 53 bits at most
Normal(s, n, e) ==
    IF n = <<>> THEN DZero
    ELSE Double(s, NShl(n, 53 - NBitLen(n)), e - (53 - NBitLen(n)))

\* a + 1 for a > 0
NInc(a) == NCarry(<<a[1] + 1>> \o Tail(a))

\* n \div 2^d rounded to the nearest, a tie going to the even quotient
NShrRound(n, d) ==
    IF NBit(n, d - 1) = 1 /\ (NLowBits(n, d - 1) \/ NBit(n, d) = 1)
    THEN NInc(NShr(n, d))
    ELSE NShr(n, d)

\* the double s * r * 2^e for r of 53 bits, or of 54 after a rounding up
Renormal(s, r, e) ==
    IF NBitLen(r) = 54 THEN Double(s, NShr(r, 1), e + 1) ELSE Double(s, r, e)

\* the double nearest to s * n * 2^e, a tie going to the even mantissa
Round53(s, n, e) ==
    IF NBitLen(n) <= 53 THEN Normal(s, n, e)
    ELSE Renormal(s, NShrRound(n, NBitLen(n) - 53), e + NBitLen(n) - 53)

\* float(n) for an integer n
DOfInt(n) == Normal(IF n < 0 THEN -1 ELSE 1, NOfInt(Abs(n)), 0)

DNeg(x) == Double(-x.s, x.m, x.e)

\* x * y
DMul(x, y) ==
    IF x.m = <<>> \/ y.m = <<>> THEN DZero
    ELSE Round53(x.s * y.s, NMul(x.m, y.m), x.e + y.e)

\* the lesser exponent of x and y, and the mantissa of x in units of 2^e
MinE(x, y) == IF x.e < y.e THEN x.e ELSE y.e
Aligned(x, e) == NShl(x.m, x.e - e)

\* the double nearest to (sa * a + sb * b) * 2^e
DSum(sa, a, sb, b, e) ==
    Round53(IF sa = sb \/ ~NLess(a, b) THEN sa ELSE sb,
            IF sa = sb THEN NAdd(a, b)
            ELSE IF NLess(a, b) THEN NSub(b, a)
            ELSE NSub(a, b),
            e)

\* x + y
DAdd(x, y) ==
    IF x.m = <<>> THEN y
    ELSE IF y.m = <<>> THEN x
    ELSE DSum(x.s, Aligned(x, MinE(x, y)), y.s, Aligned(y, MinE(x, y)),
              MinE(x, y))

\* x - y
DSub(x, y) == DAdd(x, DNeg(y))

\* the limb of the quotient r / d that is q0, q0 - 1 or q0 - 2
QuotLimb(r, d, q0) ==
    IF ~NLess(r, NScale(d, q0)) THEN q0
    ELSE IF ~NLess(r, NScale(d, q0 - 1)) THEN q0 - 1
    ELSE q0 - 2

\* the limb q before the limbs of a quotient
AfterLimb(q, rest) == <<<<q>> \o rest[1], rest[2]>>

\* the next c limbs of the quotient r / d, the high limb first, and the
\* remainder, for r < d * 2^14 and a divisor of four limbs whose high limb
\* is 2^13 or more: a limb of the quotient is at most two below the quotient
\* of the two high limbs of r by the high limb of d, and 2^14 - 1 at most
RECURSIVE DivLimbs(_, _, _)
DivFrom(r, d, c, q) ==
    AfterLimb(q, DivLimbs(NShl(NSub(r, NScale(d, q)), 14), d, c - 1))

DivLimbs(r, d, c) ==
    IF c = 0 THEN <<<<>>, r>>
    ELSE IF (NAt(r, 5) * 2^14 + NAt(r, 4)) \div d[4] < 2^14
    THEN DivFrom(r, d, c,
                 QuotLimb(r, d, (NAt(r, 5) * 2^14 + NAt(r, 4)) \div d[4]))
    ELSE DivFrom(r, d, c, QuotLimb(r, d, 2^14 - 1))

\* twice the quotient of five limbs, and one for a remainder that is left
WithSticky(qr) ==
    NCarry(<<2 * qr[1][5] + (IF qr[2] = <<>> THEN 0 ELSE 1), 2 * qr[1][4],
             2 * qr[1][3], 2 * qr[1][2], 2 * qr[1][1]>>)

\* x / y: the quotient of the mantissas to 56 binary places, and one more
\* bit that says whether a remainder is left
DDiv(x, y) ==
    IF y.m = <<>> THEN DNaN
    ELSE IF x.m = <<>> THEN DZero
    ELSE Round53(x.s * y.s,
                 WithSticky(DivLimbs(NShl(x.m, 3), NShl(y.m, 3), 5)),
                 x.e - y.e - 57)

\* float of the rational x, as a literal or as the value of a quantity
DOfRat(x) == DDiv(DOfInt(x[2]), DOfInt(x[3]))

\* x - y in units of the last place of the finer of the two, for two doubles
\* of one sign that are a few units apart
DUlps(x, y) ==
    x.s * NDiff(Aligned(x, MinE(x, y)), Aligned(y, MinE(x, y)))

-----------------------------------------------------------------------------
(* Exceptions *)

NoError == <<"ok">>
ValueError(msg) == <<"ValueError", msg>>
PlyValidationError(msg) == <<"ValueError", "Ply validation failed: ", msg>>
ZeroDivisionError == <<"ZeroDivisionError">>
DimensionalityError == <<"DimensionalityError">>

-----------------------------------------------------------------------------
(* layers.py: the layer objects a ply list refers to *)

GlassIds == {"g1", "g2", "g3"}
InterlayerIds == {"i1"}
LayerIds == GlassIds \cup InterlayerIds

\* GlassPly.__init__ stores 71.7 GPa whatever E it is given
DefaultE == R(717, 10)

GlassPly(t_min) ==
    [kind |-> "GlassPly", E |-> DefaultE, t_min |-> t_min, t_nom |-> None,
     t |-> None, G |-> None, G_table |-> None, temperature |-> None,
     duration |-> None]

\* Interlayer.from_static(t, G): t > 0 and G > 0
Interlayer_from_static(t, G) ==
    [kind |-> "Interlayer", E |-> None, t_min |-> None, t_nom |-> None,
     t |-> t, G |-> G, G_table |-> None, temperature |-> None,
     duration |-> None]

\* an instance before __init__ has set anything
NoLayer ==
    [kind |-> "None", E |-> None, t_min |-> None, t_nom |-> None, t |-> None,
     G |-> None, G_table |-> None, temperature |-> None, duration |-> None]

\* a length as it is given: magnitude and unit, "mm" or "in"
Length(mag, unit) == <<mag, unit>>

MmPerInch == R(254, 10)

\* pint's factor from inches to mm, with inch = yard / 36, yard = 0.9144 m
\* and mm = 0.001 m: 0.9144 / 36 / 0.001 is the double 25.4
MmPerInchFloat == DOfRat(MmPerInch)

\* pint's factor from mm to inches: 0.001 * 36 / 0.9144 is
\* 0.03937007874015749, the double above 1 / 25.4
InchPerMmFloat ==
    DDiv(DMul(DOfRat(R(1, 1000)), DOfInt(36)), DOfRat(R(9144, 10000)))

\* the double u units in the last place from float(x); x itself for u = 0
Rounded(x, u) == IF u = 0 THEN x ELSE <<x[1], x[2], x[3], u>>

\* the double product written from the exact product
Nearest(exact, product) == Rounded(exact, DUlps(product, DOfRat(exact)))

\* the magnitude x times the factor
Converted(x, exact_factor, factor) ==
    Nearest(RMul(x, exact_factor), DMul(DOfRat(x), factor))

\* Quantity.m_as(unit) of a length: the magnitude itself in its own unit,
\* else the double product of the magnitude and pint's factor. The product
\* is written as the exact product where it is the double of it, and as a
\* double next to it where the rounding of the factor and of the product
\* leaves it there: 6.35 mm is 0.25 in, 22.225 mm is 0.8750000000000002 in
\* and 0.09375 in is 2.3812499999999996 mm.
m_as(q, unit) ==
    IF q[2] = unit THEN q[1]
    ELSE Converted(q[1],
                   IF unit = "mm" THEN MmPerInch ELSE RInv(MmPerInch),
                   IF unit = "mm" THEN MmPerInchFloat ELSE InchPerMmFloat)

\* keys in mm, values in mm
t_min_lookup_metric ==
    (R(20, 10) :> R(180, 100)) @@
    (R(25, 10) :> R(216, 100)) @@
    (R(27, 10) :> R(259, 100)) @@
    (R(3, 1) :> R(292, 100)) @@
    (R(4, 1) :> R(378, 100)) @@
    (R(5, 1) :> R(457, 100)) @@
    (R(6, 1) :> R(556, 100)) @@
    (R(8, 1) :> R(742, 100)) @@
    (R(10, 1) :> R(902, 100)) @@
    (R(12, 1) :> R(1191, 100)) @@
    (R(16, 1) :> R(1509, 100)) @@
    (R(19, 1) :> R(1826, 100)) @@
    (R(22, 1) :> R(2144, 100)) @@
    (R(25, 1) :> R(2461, 100))

\* keys in inches, values in mm
t_min_lookup_imperial ==
    (R(9375, 100000) :> R(216, 100)) @@
    (R(125, 1000) :> R(292, 100)) @@
    (R(15625, 100000) :> R(378, 100)) @@
    (R(1875, 10000) :> R(457, 100)) @@
    (R(25, 100) :> R(556, 100)) @@
    (R(3125, 10000) :> R(742, 100)) @@
    (R(375, 1000) :> R(902, 100)) @@
    (R(5, 10) :> R(1191, 100)) @@
    (R(625, 1000) :> R(1509, 100)) @@
    (R(75, 100) :> R(1826, 100)) @@
    (R(875, 1000) :> R(2144, 100)) @@
    (R(1, 1) :> R(2461, 100))

NominalLookupError(t_nom) ==
    <<"ValueError", "Could not find the nominal thickness of ", t_nom,
      " in the nominal thickness lookup.">>

\* a lookup that takes the nominal thickness itself when no table has it
_find_min_from_nom_any(t_nom) ==
    IF m_as(t_nom, "mm") \in DOMAIN t_min_lookup_metric
    THEN [val |-> t_min_lookup_metric[m_as(t_nom, "mm")], err |-> NoError]
    ELSE IF m_as(t_nom, "in") \in DOMAIN t_min_lookup_imperial
    THEN [val |-> t_min_lookup_imperial[m_as(t_nom, "in")], err |-> NoError]
    ELSE [val |-> m_as(t_nom, "mm"), err |-> NoError]

\* GlassPly._find_min_from_nom: the metric table, then the imperial one
_find_min_from_nom(t_nom) ==
    IF m_as(t_nom, "mm") \in DOMAIN t_min_lookup_metric
    THEN [val |-> t_min_lookup_metric[m_as(t_nom, "mm")], err |-> NoError]
    ELSE IF m_as(t_nom, "in") \in DOMAIN t_min_lookup_imperial
    THEN [val |-> t_min_lookup_imperial[m_as(t_nom, "in")], err |-> NoError]
    ELSE [val |-> None, err |-> NominalLookupError(t_nom)]

\* GlassPly.__init__(t_min, t_nom), t_min in mm and t_nom None or a length
GlassPly_init(t_min, t_nom) ==
    IF IsNeg(t_min)
    THEN [obj |-> NoLayer,
          err |-> ValueError("Actual thickness cannot be less than zero.")]
    ELSE [obj |-> [GlassPly(t_min) EXCEPT !.t_nom = t_nom], err |-> NoError]

from_nominal_thickness(t_nom) ==
    LET f == _find_min_from_nom(t_nom)
    IN  IF f.err # NoError THEN [obj |-> NoLayer, err |-> f.err]
        ELSE GlassPly_init(f.val, t_nom)

from_actual_thickness(t_act) == GlassPly_init(t_act, None)

\* GlassPly.t_nom setter: the value is stored before the lookup
t_nom_setter(ply, value) ==
    IF IsNeg(value[1])
    THEN [obj |-> ply,
          err |-> ValueError("Nominal thickness cannot be less than zero.")]
    ELSE LET f == _find_min_from_nom(value)
         IN  IF f.err # NoError
             THEN [obj |-> [ply EXCEPT !.t_nom = value], err |-> f.err]
             ELSE [obj |-> [ply EXCEPT !.t_nom = value, !.t_min = f.val],
                   err |-> NoError]

\* GlassPly.t_min setter
t_min_setter(ply, value) ==
    IF IsNeg(value)
    THEN [obj |-> ply,
          err |-> ValueError("Actual thickness cannot be less than zero.")]
    ELSE [obj |-> [ply EXCEPT !.t_min = value, !.t_nom = None],
          err |-> NoError]

\* a value that may be None: None is <<>>, a table is held as <<table>>
Some(x) == <<x>>

StaticCaseError ==
    ValueError("No product table provided. Static case being used.")

KeyError(key) == <<"KeyError", key>>

\* the (temperature, duration) pairs of the grid of a table that the table
\* has no entry for
MissingKeys(data) ==
    {<<T, d>> : T \in {k[1] : k \in DOMAIN data},
                d \in {k[2] : k \in DOMAIN data}} \ DOMAIN data

\* the first of them in the order of the vectorized lookup: by duration,
\* then by temperature
FirstMissingKey(data) ==
    CHOOSE k \in MissingKeys(data) :
        \A m \in MissingKeys(data) :
            \/ RLt(k[2], m[2])
            \/ k[2] = m[2] /\ ~RLt(m[1], k[1])

\* the exception of scipy's FITPACK wrapper
dfitpack_error(msg) == <<"dfitpack.error", msg>>

\* vlookup(x, y) over the meshgrid of the temperatures and durations of a
\* table: np.vectorize refuses an empty grid, and the lookup of a pair the
\* table has no entry for raises KeyError (numpy's message quotes the words
\* vectorize and otypes)
vlookup(data) ==
    IF DOMAIN data = {}
    THEN ValueError(
             "cannot call vectorize on size 0 inputs unless otypes is set")
    ELSE IF MissingKeys(data) # {}
    THEN KeyError(FirstMissingKey(data))
    ELSE NoError

\* interpolate.interp2d(G_table_x, G_table_y, G_table_z, kind="linear")
\* on a full grid: the linear spline needs more than one temperature and
\* more than one duration, and the temperatures are tested first
interp2d(data) ==
    IF Cardinality({k[1] : k \in DOMAIN data}) < 2
    THEN dfitpack_error("(mx>kx) failed for hidden mx: regrid_smth:mx=1")
    ELSE IF Cardinality({k[2] : k \in DOMAIN data}) < 2
    THEN dfitpack_error("(my>ky) failed for hidden my: regrid_smth:my=1")
    ELSE NoError

\* Interlayer.__init__(t, G=..., G_table=...); with a table it looks up
\* every pair of the grid of temperatures and durations and builds the
\* interpolation function G calls; either step may raise, after t and the
\* table were stored
Interlayer_init(t, G, G_table) ==
    LET o1 == [NoLayer EXCEPT !.kind = "Interlayer", !.t = t]
        o2 == [o1 EXCEPT !.G = G, !.G_table = G_table]
    IN  IF G = None /\ G_table = None
        THEN [obj |-> o1,
              err |-> ValueError("Either G or G_table must be provided.")]
        ELSE IF G # None /\ G_table # None
        THEN [obj |-> o1,
              err |-> ValueError("Only one of G or G_table must be provided.")]
        ELSE IF G_table = None
        THEN [obj |-> o2, err |-> NoError]
        ELSE IF vlookup(G_table[1]) # NoError
        THEN [obj |-> o2, err |-> vlookup(G_table[1])]
        ELSE [obj |-> o2, err |-> interp2d(G_table[1])]

\* Interlayer.from_product_table(t, product_name) with the registry reg
from_product_table(reg, t, product_name) ==
    IF ~RLt(Zero, t)
    THEN [obj |-> NoLayer,
          err |-> ValueError("The thickness must be greater than zero [lengh].")]
    ELSE IF product_name \notin DOMAIN reg
    THEN [obj |-> NoLayer,
          err |-> ValueError(
                   "The product is not registered in the product registry.")]
    ELSE Interlayer_init(t, None, Some(reg[product_name]))

\* Interlayer.from_static(t, G) with its two tests
from_static(t, G) ==
    IF ~RLt(Zero, t)
    THEN [obj |-> NoLayer,
          err |-> ValueError("The thickness must be greater than zero [lengh].")]
    ELSE IF ~RLt(Zero, G)
    THEN [obj |-> NoLayer,
          err |-> ValueError(
                   "The shear modulus must be greater than zero [pressure].")]
    ELSE Interlayer_init(t, G, None)

\* the property reads return the value read in val
temperature_getter(il) ==
    IF il.G_table = None THEN [val |-> None, err |-> StaticCaseError]
    ELSE [val |-> il.temperature, err |-> NoError]

\* a setter without the test for the static case
temperature_setter_store(il, value) ==
    [obj |-> [il EXCEPT !.temperature = value], err |-> NoError]

temperature_setter(il, value) ==
    IF il.G_table = None THEN [obj |-> il, err |-> StaticCaseError]
    ELSE [obj |-> [il EXCEPT !.temperature = value], err |-> NoError]

duration_getter(il) ==
    IF il.G_table = None THEN [val |-> None, err |-> StaticCaseError]
    ELSE [val |-> il.duration, err |-> NoError]

duration_setter(il, value) ==
    IF il.G_table = None THEN [obj |-> il, err |-> StaticCaseError]
    ELSE [obj |-> [il EXCEPT !.duration = value], err |-> NoError]

\* self.G_interp_dim(temperature, duration)[0]: call_G_interp has no return
\* statement, so the wrapper is asked to make a Quantity of None
TypeError == <<"TypeError">>

G_interp_dim(il) == [val |-> None, err |-> TypeError]

\* a read of G that goes to the interpolation whenever the key is absent
Interlayer_G_no_test(il) ==
    IF il.G # None THEN [val |-> il.G, err |-> NoError]
    ELSE IF <<il.temperature, il.duration>> \in DOMAIN il.G_table[1]
    THEN [val |-> il.G_table[1][<<il.temperature, il.duration>>],
          err |-> NoError]
    ELSE G_interp_dim(il)

\* Interlayer.G
Interlayer_G(il) ==
    IF il.G # None THEN [val |-> il.G, err |-> NoError]
    ELSE IF <<il.temperature, il.duration>> \in DOMAIN il.G_table[1]
    THEN [val |-> il.G_table[1][<<il.temperature, il.duration>>],
          err |-> NoError]
    ELSE IF il.temperature = None \/ il.duration = None
    THEN [val |-> None,
          err |-> ValueError("Reference temperature and/or duration not test.")]
    ELSE G_interp_dim(il)

\* the number of seconds of a unit of time
SecondsPer(unit) ==
    CASE unit = "sec" -> 1
      [] unit = "min" -> 60
      [] unit = "hour" -> 3600
      [] unit = "day" -> 86400
      [] unit = "month" -> 2629800
      [] unit = "year" -> 31557600

\* a key in degC and seconds
Key(T, d, unit) == <<Num(T), Num(d * SecondsPer(unit))>>

\* (Q_(T, "degC"), Q_(d, unit)): Q_(G, "MPa"), kept in GPa
Entry(T, d, unit, G) == Key(T, d, unit) :> G

\* a registration without the test for a rectangular table
register_interlayer_product_unchecked(reg, product_name, data) ==
    [reg |-> [n \in (DOMAIN reg) \cup {product_name} |->
                 IF n = product_name THEN data ELSE reg[n]],
     err |-> NoError]

\* register_interlayer_product(product_name, data) on the registry reg
register_interlayer_product(reg, product_name, data) ==
    LET G_table_tmp == {k[1] : k \in DOMAIN data}
        G_table_dur == {k[2] : k \in DOMAIN data}
    IN  IF Cardinality(G_table_tmp) * Cardinality(G_table_dur)
               # Cardinality(DOMAIN data)
        THEN [reg |-> reg,
              err |-> ValueError("The provided data is not rectangular.")]
        ELSE [reg |-> [n \in (DOMAIN reg) \cup {product_name} |->
                          IF n = product_name THEN data ELSE reg[n]],
              err |-> NoError]

\* deregister_interlayer_product(product_name): pop(product_name, None)
deregister_interlayer_product(reg, product_name) ==
    [reg |-> [n \in (DOMAIN reg) \ {product_name} |-> reg[n]],
     err |-> NoError]

\* __data_II, lines 597-661
data_II ==
    Entry(10, 1, "sec", R(240, 1000)) @@
    Entry(20, 1, "sec", R(217, 1000)) @@
    Entry(24, 1, "sec", R(200, 1000)) @@
    Entry(30, 1, "sec", R(151, 1000)) @@
    Entry(40, 1, "sec", R(770, 10000)) @@
    Entry(50, 1, "sec", R(362, 10000)) @@
    Entry(60, 1, "sec", R(118, 10000)) @@
    Entry(70, 1, "sec", R(377, 100000)) @@
    Entry(80, 1, "sec", R(155, 100000)) @@
    Entry(10, 3, "sec", R(236, 1000)) @@
    Entry(20, 3, "sec", R(211, 1000)) @@
    Entry(24, 3, "sec", R(193, 1000)) @@
    Entry(30, 3, "sec", R(141, 1000)) @@
    Entry(40, 3, "sec", R(630, 10000)) @@
    Entry(50, 3, "sec", R(264, 10000)) @@
    Entry(60, 3, "sec", R(818, 100000)) @@
    Entry(70, 3, "sec", R(293, 100000)) @@
    Entry(80, 3, "sec", R(132, 100000)) @@
    Entry(10, 1, "min", R(225, 1000)) @@
    Entry(20, 1, "min", R(195, 1000)) @@
    Entry(24, 1, "min", R(173, 1000)) @@
    Entry(30, 1, "min", R(110, 1000)) @@
    Entry(40, 1, "min", R(307, 10000)) @@
    Entry(50, 1, "min", R(113, 10000)) @@
    Entry(60, 1, "min", R(364, 100000)) @@
    Entry(70, 1, "min", R(188, 100000)) @@
    Entry(80, 1, "min", R(83, 100000)) @@
    Entry(10, 1, "hour", R(206, 1000)) @@
    Entry(20, 1, "hour", R(169, 1000)) @@
    Entry(24, 1, "hour", R(142, 1000)) @@
    Entry(30, 1, "hour", R(599, 10000)) @@
    Entry(40, 1, "hour", R(928, 100000)) @@
    Entry(50, 1, "hour", R(420, 100000)) @@
    Entry(60, 1, "hour", R(170, 100000)) @@
    Entry(70, 1, "hour", R(84, 100000)) @@
    Entry(80, 1, "hour", R(32, 100000)) @@
    Entry(10, 1, "day", R(190, 1000)) @@
    Entry(20, 1, "day", R(146, 1000)) @@
    Entry(24, 1, "day", R(111, 1000)) @@
    Entry(30, 1, "day", R(497, 10000)) @@
    Entry(40, 1, "day", R(454, 100000)) @@
    Entry(50, 1, "day", R(282, 100000)) @@
    Entry(60, 1, "day", R(129, 100000)) @@
    Entry(70, 1, "day", R(59, 100000)) @@
    Entry(80, 1, "day", R(25, 100000)) @@
    Entry(10, 1, "month", R(171, 1000)) @@
    Entry(20, 1, "month", R(112, 1000)) @@
    Entry(24, 1, "month", R(732, 10000)) @@
    Entry(30, 1, "month", R(116, 10000)) @@
    Entry(40, 1, "month", R(329, 100000)) @@
    Entry(50, 1, "month", R(218, 100000)) @@
    Entry(60, 1, "month", R(108, 100000)) @@
    Entry(70, 1, "month", R(48, 100000)) @@
    Entry(80, 1, "month", R(21, 100000)) @@
    Entry(10, 10, "year", R(153, 1000)) @@
    Entry(20, 10, "year", R(866, 10000)) @@
    Entry(24, 10, "year", R(260, 10000)) @@
    Entry(30, 10, "year", R(531, 100000)) @@
    Entry(40, 10, "year", R(295, 100000)) @@
    Entry(50, 10, "year", R(200, 100000)) @@
    Entry(60, 10, "year", R(97, 100000)) @@
    Entry(70, 10, "year", R(45, 100000)) @@
    Entry(80, 10, "year", R(18, 100000))

\* __data_PVB, lines 666-691
data_PVB ==
    Entry(20, 3, "sec", R(8060, 1000000)) @@
    Entry(30, 3, "sec", R(971, 1000000)) @@
    Entry(40, 3, "sec", R(610, 1000000)) @@
    Entry(50, 3, "sec", R(440, 1000000)) @@
    Entry(20, 1, "min", R(1640, 1000000)) @@
    Entry(30, 1, "min", R(753, 1000000)) @@
    Entry(40, 1, "min", R(455, 1000000)) @@
    Entry(50, 1, "min", R(290, 1000000)) @@
    Entry(20, 1, "hour", R(840, 1000000)) @@
    Entry(30, 1, "hour", R(441, 1000000)) @@
    Entry(40, 1, "hour", R(234, 1000000)) @@
    Entry(50, 1, "hour", R(52, 1000000)) @@
    Entry(20, 1, "day", R(508, 1000000)) @@
    Entry(30, 1, "day", R(281, 1000000)) @@
    Entry(40, 1, "day", R(234, 1000000)) @@
    Entry(50, 1, "day", R(52, 1000000)) @@
    Entry(20, 1, "month", R(372, 1000000)) @@
    Entry(30, 1, "month", R(69, 1000000)) @@
    Entry(40, 1, "month", R(52, 1000000)) @@
    Entry(50, 1, "month", R(52, 1000000)) @@
    Entry(20, 1, "year", R(266, 1000000)) @@
    Entry(30, 1, "year", R(52, 1000000)) @@
    Entry(40, 1, "year", R(52, 1000000)) @@
    Entry(50, 1, "year", R(52, 1000000))

\* the registry after the import of the module
InitRegistry ==
    ("Ionoplast Interlayer NCSEA" :> data_II) @@ ("PVB NCSEA" :> data_PVB)

IsGlassPly(L, id) == L[id].kind = "GlassPly"
IsInterlayer(L, id) == L[id].kind = "Interlayer"

-----------------------------------------------------------------------------
(* equiv_thick_models.py *)

PkgIds == {"A", "B"}

Classes == {"MonolithicMethod", "NonCompositeMethod", "ShearTransferCoefMethod"}

\* an instance before __init__ has set anything; h_efs is a map ply -> number
NoObject ==
    [cls |-> "None", has_ply |-> FALSE, ply |-> <<>>, E |-> None,
     h_efw |-> None, h_efs |-> None, panel_min_dim |-> None, beta |-> None,
     Gamma |-> None]

SeqToSet(s) == {s[i] : i \in 1..Len(s)}

\* set([ii.E for ii in plys])
SetOfE(L, plys) == {L[plys[i]].E : i \in 1..Len(plys)}

\* MonolithicMethod._validate without the comparison of the elastic moduli
MonolithicMethod_validate_any_E(L, plys) ==
    IF Len(plys) > 0 /\ \A i \in 1..Len(plys) : IsGlassPly(L, plys[i])
    THEN [valid |-> TRUE, msg |-> ""]
    ELSE [valid |-> FALSE,
          msg |-> "Method is only formulated for a list of GlassPly."]

MonolithicMethod_validate(L, plys) ==
    LET valid == \A i \in 1..Len(plys) : IsGlassPly(L, plys[i])
    IN  IF valid
        THEN IF Cardinality(SetOfE(L, plys)) = 1
             THEN [valid |-> TRUE, msg |-> ""]
             ELSE [valid |-> FALSE,
                   msg |-> "The plys must have the same elastic modulus."]
        ELSE [valid |-> FALSE,
              msg |-> "Method is only formulated for a list of GlassPly."]

NonCompositeMethod_validate(L, plys) ==
    LET valid == \A i \in 1..Len(plys) : IsGlassPly(L, plys[i])
    IN  IF valid
        THEN IF Cardinality(SetOfE(L, plys)) = 1
             THEN [valid |-> TRUE, msg |-> ""]
             ELSE [valid |-> FALSE,
                   msg |-> "The plys must have the same elastic modulus."]
        ELSE [valid |-> FALSE,
              msg |-> "Method is only formulated for a list of GlassPly."]

\* the isinstance tests without the test of the length
ShearTransferCoefMethod_shape_any_len(L, plys) ==
    /\ Len(plys) >= 3
    /\ IsGlassPly(L, plys[1])
    /\ IsGlassPly(L, plys[3])
    /\ IsInterlayer(L, plys[2])

\* the nested isinstance tests of lines 385-389
ShearTransferCoefMethod_shape(L, plys) ==
    /\ Len(plys) = 3
    /\ IsGlassPly(L, plys[1])
    /\ IsGlassPly(L, plys[3])
    /\ IsInterlayer(L, plys[2])

\* a differing E sets msg only: valid stays True
ShearTransferCoefMethod_validate(L, plys) ==
    IF ShearTransferCoefMethod_shape(L, plys)
    THEN IF Cardinality({L[plys[1]].E, L[plys[3]].E}) # 1
         THEN [valid |-> TRUE,
               msg |-> "The plys must have the same elastic modulus."]
         ELSE [valid |-> TRUE, msg |-> ""]
    ELSE [valid |-> FALSE,
          msg |-> "Method is only valid a list of [GlassPly, Interlayer, GlassPly]."]

_validate(L, cls, plys) ==
    CASE cls = "MonolithicMethod" -> MonolithicMethod_validate(L, plys)
      [] cls = "NonCompositeMethod" -> NonCompositeMethod_validate(L, plys)
      [] cls = "ShearTransferCoefMethod" ->
             ShearTransferCoefMethod_validate(L, plys)

\* self._E = self.ply[0].E (the three classes share the body)
_determine_package_E(L, obj) == [obj EXCEPT !.E = L[obj.ply[1]].E]

\* [ii.t_min ** n for ii in self.ply]
TminPowers(L, plys, n) == [i \in 1..Len(plys) |-> Pow(L[plys[i]].t_min, n)]

\* a calculation that gives every ply its own thickness for the stress
MonolithicMethod_calc_equiv_thickness_own(L, obj) ==
    LET h == RSum(TminPowers(L, obj.ply, 1))
    IN  [obj |-> [obj EXCEPT !.h_efw = h,
                             !.h_efs = [p \in SeqToSet(obj.ply) |->
                                           L[p].t_min]],
         err |-> NoError]

MonolithicMethod_calc_equiv_thickness(L, obj) ==
    LET h == RSum(TminPowers(L, obj.ply, 1))
    IN  [obj |-> [obj EXCEPT !.h_efw = h,
                             !.h_efs = [p \in SeqToSet(obj.ply) |-> h]],
         err |-> NoError]

\* a func(n) that adds the thicknesses whatever n is
NonCompositeMethod_func_plain_sum(L, plys, n) ==
    RSum(TminPowers(L, plys, 1))

\* func(n) = sum(ii.t_min ** n for ii in self.ply) ** (1 / n)
NonCompositeMethod_func(L, plys, n) == Root(RSum(TminPowers(L, plys, n)), n)

NonCompositeMethod_calc_equiv_thickness(L, obj) ==
    [obj |-> [obj EXCEPT
                !.h_efs = [p \in SeqToSet(obj.ply) |->
                              NonCompositeMethod_func(L, obj.ply, 2)],
                !.h_efw = NonCompositeMethod_func(L, obj.ply, 3)],
     err |-> NoError]

Beta96 == R(48, 5)

\* lines 409-435; the read of the G property of the interlayer can raise,
\* and so can the two divisions that can meet a zero
ShearTransferCoefMethod_calc_equiv_thickness(L, obj) ==
    LET h_1 == L[obj.ply[1]].t_min
        h_2 == L[obj.ply[3]].t_min
        h_v == L[obj.ply[2]].t
        g == Interlayer_G(L[obj.ply[2]])
        G_interlayer == g.val
        E_glass == obj.E
        h_s == RAdd(RMul(R(1, 2), RAdd(h_1, h_2)), h_v)
        h_s1 == RMul(RMul(h_s, h_1), RInv(RAdd(h_1, h_2)))
        h_s2 == RMul(RMul(h_s, h_2), RInv(RAdd(h_1, h_2)))
        I_s == RAdd(RMul(h_1, RPow(h_s2, 2)), RMul(h_2, RPow(h_s1, 2)))
        den == RMul(RMul(G_interlayer, RPow(h_s, 2)),
                    RPow(obj.panel_min_dim, 2))
        num == RMul(RMul(RMul(obj.beta, E_glass), I_s), h_v)
        Gamma == RInv(RAdd(One, RMul(num, RInv(den))))
        h_efw == Root(RAdd(RAdd(RPow(h_1, 3), RPow(h_2, 3)),
                           RMul(RMul(Num(12), Gamma), I_s)), 3)
        h_efs_0 == Root(RMul(Pow(h_efw, 3),
                             RInv(RAdd(h_1, RMul(RMul(Num(2), Gamma), h_s2)))),
                        2)
        h_efs_2 == Root(RMul(Pow(h_efw, 3),
                             RInv(RAdd(h_2, RMul(RMul(Num(2), Gamma), h_s1)))),
                        2)
    IN  IF g.err # NoError THEN [obj |-> obj, err |-> g.err]
        ELSE IF IsZero(RAdd(h_1, h_2)) \/ IsZero(den)
        THEN [obj |-> obj, err |-> ZeroDivisionError]
        ELSE [obj |-> [obj EXCEPT
                         !.Gamma = Gamma,
                         !.h_efw = h_efw,
                         !.h_efs = [p \in {obj.ply[1], obj.ply[3]} |->
                                       IF p = obj.ply[3] THEN h_efs_2
                                       ELSE h_efs_0]],
              err |-> NoError]

_calc_equiv_thickness(L, obj) ==
    CASE obj.cls = "MonolithicMethod" ->
             MonolithicMethod_calc_equiv_thickness(L, obj)
      [] obj.cls = "NonCompositeMethod" ->
             NonCompositeMethod_calc_equiv_thickness(L, obj)
      [] obj.cls = "ShearTransferCoefMethod" ->
             ShearTransferCoefMethod_calc_equiv_thickness(L, obj)

\* a ply setter that stores the list before it validates it
ply_setter_store_first(L, obj, value) ==
    LET v == _validate(L, obj.cls, value)
    IN  IF ~v.valid
        THEN [obj |-> [obj EXCEPT !.ply = value],
              err |-> PlyValidationError(v.msg)]
        ELSE _calc_equiv_thickness(L,
                 _determine_package_E(L,
                     [obj EXCEPT !.ply = value, !.has_ply = TRUE]))

\* GlassLiteEquiv.ply setter
ply_setter(L, obj, value) ==
    LET v == _validate(L, obj.cls, value)
    IN  IF ~v.valid
        THEN [obj |-> obj, err |-> PlyValidationError(v.msg)]
        ELSE _calc_equiv_thickness(L,
                 _determine_package_E(L,
                     [obj EXCEPT !.ply = value, !.has_ply = TRUE]))

GlassLiteEquiv_init(L, obj, ply) ==
    ply_setter(L, [obj EXCEPT !.h_efw = None, !.h_efs = None, !.E = None],
               ply)

MonolithicMethod_init(L, plys) ==
    GlassLiteEquiv_init(L, [NoObject EXCEPT !.cls = "MonolithicMethod"], plys)

NonCompositeMethod_init(L, plys) ==
    GlassLiteEquiv_init(L, [NoObject EXCEPT !.cls = "NonCompositeMethod"],
                        plys)

\* panel_min_dim is stored unchecked, then beta, then the base constructor
ShearTransferCoefMethod_init(L, plys, panel_min_dim) ==
    GlassLiteEquiv_init(L,
        [NoObject EXCEPT !.cls = "ShearTransferCoefMethod",
                         !.panel_min_dim = panel_min_dim,
                         !.beta = Beta96],
        plys)

NewLaminate(L, cls, plys, panel_min_dim) ==
    CASE cls = "MonolithicMethod" -> MonolithicMethod_init(L, plys)
      [] cls = "NonCompositeMethod" -> NonCompositeMethod_init(L, plys)
      [] cls = "ShearTransferCoefMethod" ->
             ShearTransferCoefMethod_init(L, plys, panel_min_dim)

\* a panel_min_dim setter that stores the value and recalculates nothing
panel_min_dim_setter_no_recalc(L, obj, value) ==
    IF IsNeg(value)
    THEN [obj |-> obj,
          err |-> ValueError(
                      "The minimum panel dimension must be greater than 0ft")]
    ELSE [obj |-> [obj EXCEPT !.panel_min_dim = value], err |-> NoError]

\* ShearTransferCoefMethod.panel_min_dim setter
panel_min_dim_setter(L, obj, value) ==
    IF IsNeg(value)
    THEN [obj |-> obj,
          err |-> ValueError(
                      "The minimum panel dimension must be greater than 0ft")]
    ELSE ShearTransferCoefMethod_calc_equiv_thickness(L,
             [obj EXCEPT !.panel_min_dim = value])

\* ShearTransferCoefMethod.beta setter: stored unchecked, nothing recomputed
beta_setter(obj, value) ==
    [obj |-> [obj EXCEPT !.beta = value], err |-> NoError]

\* GlassPly.E setter
GlassPly_E_setter(ply, value) ==
    IF IsNeg(value)
    THEN [obj |-> ply,
          err |-> ValueError("Elastic modulus cannot be less than zero.")]
    ELSE [obj |-> [ply EXCEPT !.E = value], err |-> NoError]

-----------------------------------------------------------------------------
(* helpers.py: Roarks4side *)

\* a pint Quantity where its dimension is checked: dimension and magnitude
Q(dim, mag) == [dim |-> dim, mag |-> mag]

\* t = Q_(1, "inch"), the default plate thickness, in mm
DefaultPlateT == Q("[length]", R(127, 5))

NoPlate ==
    [dim_x |-> None, dim_y |-> None, t |-> None, E |-> None, a |-> None,
     b |-> None, ratio |-> None]

\* the keys and columns of the coefficient table, lines 55-58; the last key,
\* 1e16, is beyond the integers of the checker and is kept apart: see WithTail
ratios(i) ==
    CASE i = 1 -> Num(1)
      [] i = 2 -> R(6, 5)
      [] i = 3 -> R(7, 5)
      [] i = 4 -> R(8, 5)
      [] i = 5 -> R(9, 5)
      [] i = 6 -> Num(2)
      [] i = 7 -> Num(3)
      [] i = 8 -> Num(4)
      [] i = 9 -> Num(5)

beta == <<R(2874, 10000), R(3762, 10000), R(453, 1000), R(5172, 10000),
          R(5688, 10000), R(6102, 10000), R(7134, 10000), R(741, 1000),
          R(7476, 10000), R(75, 100)>>

alpha == <<R(44, 1000), R(616, 10000), R(77, 1000), R(906, 10000),
           R(1017, 10000), R(111, 1000), R(1335, 10000), R(14, 100),
           R(1417, 10000), R(1421, 10000)>>

gamma == <<R(42, 100), R(455, 1000), R(478, 1000), R(491, 1000),
           R(499, 1000), R(503, 1000), R(505, 1000), R(502, 1000),
           R(501, 1000), R(5, 10)>>

\* the segment of the table x falls in: the last key not above x
RECURSIVE Segment(_, _)
Segment(x, i) ==
    IF i = 1 \/ ~RLt(x, ratios(i)) THEN i ELSE Segment(x, i - 1)

\* base + k / (1e16 - 5): a value of the last segment of the table
WithTail(base, k) == <<1, base[2], base[3], k[2], k[3]>>

HasTail(c) == Len(c) = 5

\* c * f for a rational f
Scale(c, f) ==
    IF HasTail(c)
    THEN WithTail(RMul(<<1, c[2], c[3]>>, f), RMul(<<1, c[4], c[5]>>, f))
    ELSE Mul(c, f)

\* the last key of the table, 1e16, as a double
LastRatioFloat == DMul(DOfInt(10^8), DOfInt(10^8))

\* a segment in doubles, lines 60-62 (scipy's linear interpolation): y_lo,
\* and slope = (y_hi - y_lo) / (x_hi - x_lo), between the keys 5 and 1e16
SegmentFloat(y_lo, y_hi) ==
    <<y_lo, DDiv(DSub(y_hi, y_lo), DSub(LastRatioFloat, DOfInt(5)))>>

LastSegment(ys) == SegmentFloat(DOfRat(ys[9]), DOfRat(ys[10]))

\* the last segments of the three columns of the table
LastSegments ==
    <<>> \o [i \in 1..3 |-> LastSegment(<<beta, alpha, gamma>>[i])]

\* the last segment of the column ys
SegmentOf(ys) ==
    IF \E i \in 1..3 : <<beta, alpha, gamma>>[i] = ys
    THEN LastSegments[CHOOSE i \in 1..3 : <<beta, alpha, gamma>>[i] = ys]
    ELSE LastSegment(ys)

\* y = slope * (x - x_lo) + y_lo in doubles, on the segment from the key 5
InterpolateFloat(seg, x) == DAdd(DMul(seg[2], DSub(x, DOfInt(5))), seg[1])

\* the sum is y_lo itself: the second term is lost in the rounding
Unmoved(seg, x) == InterpolateFloat(seg, x) = seg[1]

\* between the keys 5 and 1e16 the value is the row of the key 5 itself
Absorbed(ys, x) == Unmoved(SegmentOf(ys), DOfRat(x))

\* an interpolation that stays on the row of the key 5 beyond it
interp1d_clamped(ys, x) ==
    LET i == Segment(x, 9)
    IN  IF x = ratios(i) \/ i = 9 THEN ys[i]
        ELSE RAdd(ys[i],
                  RMul(RMul(RSub(ys[i + 1], ys[i]), RSub(x, ratios(i))),
                       RInv(RSub(ratios(i + 1), ratios(i)))))

\* scipy interp1d(ratios, ys)(x), linear, for 1 <= x < 1e16: between the
\* keys 5 and 1e16 it is ys[9] + (ys[10] - ys[9]) * (x - 5) / (1e16 - 5),
\* added in doubles: the row of the key 5 itself while the second term is
\* absorbed, else the double next to the exact sum, kept as the exact sum
interp1d(ys, x) ==
    LET i == Segment(x, 9)
        k == RMul(RSub(ys[10], ys[9]), RSub(x, ratios(9)))
    IN  IF x = ratios(i) THEN ys[i]
        ELSE IF i = 9
        THEN IF Absorbed(ys, x) THEN ys[9] ELSE WithTail(ys[9], k)
        ELSE RAdd(ys[i],
                  RMul(RMul(RSub(ys[i + 1], ys[i]), RSub(x, ratios(i))),
                       RInv(RSub(ratios(i + 1), ratios(i)))))

\* a reset that takes dim_x for the longer side whatever dim_y is
_reset_ratio_no_swap(r) ==
    IF IsZero(r.dim_y)
    THEN [obj |-> [r EXCEPT !.a = r.dim_x, !.b = r.dim_y],
          err |-> ZeroDivisionError]
    ELSE [obj |-> [r EXCEPT !.a = r.dim_x, !.b = r.dim_y,
                            !.ratio = RMul(r.dim_x, RInv(r.dim_y))],
          err |-> NoError]

\* self._a, self._b = the longer and the shorter side; self._ratio = a / b
_reset_ratio(r) ==
    LET a == IF RLt(r.dim_y, r.dim_x) THEN r.dim_x ELSE r.dim_y
        b == IF RLt(r.dim_y, r.dim_x) THEN r.dim_y ELSE r.dim_x
    IN  IF IsZero(b)
        THEN [obj |-> [r EXCEPT !.a = a, !.b = b], err |-> ZeroDivisionError]
        ELSE [obj |-> [r EXCEPT !.a = a, !.b = b,
                                !.ratio = RMul(a, RInv(b))],
              err |-> NoError]

Roarks4side_dim_x_setter(r, value) ==
    IF IsNeg(value)
    THEN [obj |-> r, err |-> ValueError("Dimensions must be greater than zero.")]
    ELSE IF r.ratio # None THEN _reset_ratio([r EXCEPT !.dim_x = value])
    ELSE [obj |-> [r EXCEPT !.dim_x = value], err |-> NoError]

Roarks4side_dim_y_setter(r, value) ==
    IF IsNeg(value)
    THEN [obj |-> r, err |-> ValueError("Dimensions must be greater than zero.")]
    ELSE IF r.ratio # None THEN _reset_ratio([r EXCEPT !.dim_y = value])
    ELSE [obj |-> [r EXCEPT !.dim_y = value], err |-> NoError]

Roarks4side_t_setter(r, value) ==
    IF IsNeg(value)
    THEN [obj |-> r, err |-> ValueError("Thickness must be greater than zero.")]
    ELSE [obj |-> [r EXCEPT !.t = value], err |-> NoError]

Roarks4side_E_setter(r, value) ==
    IF IsNeg(value)
    THEN [obj |-> r,
          err |-> ValueError("Elastic modulus must be greater than zero.")]
    ELSE [obj |-> [r EXCEPT !.E = value], err |-> NoError]

\* Roarks4side.__init__(dim_x, dim_y, E, t): ureg.check on the four
\* arguments in this order, then the four setters and _reset_ratio
Roarks4side_init(dim_x, dim_y, E, t) ==
    IF ~(/\ dim_x.dim = "[length]"
         /\ dim_y.dim = "[length]"
         /\ E.dim = "[pressure]"
         /\ t.dim = "[length]")
    THEN [obj |-> NoPlate, err |-> DimensionalityError]
    ELSE LET s1 == Roarks4side_dim_x_setter(NoPlate, dim_x.mag)
             s2 == Roarks4side_dim_y_setter(s1.obj, dim_y.mag)
             s3 == Roarks4side_t_setter(s2.obj, t.mag)
             s4 == Roarks4side_E_setter(s3.obj, E.mag)
         IN  IF s1.err # NoError THEN s1
             ELSE IF s2.err # NoError THEN s2
             ELSE IF s3.err # NoError THEN s3
             ELSE IF s4.err # NoError THEN s4
             ELSE _reset_ratio(s4.obj)

\* beta(ratio) * q * (b / t) ** 2
stress_max(r, q) ==
    LET c == interp1d(beta, r.ratio)
    IN  IF HasTail(c) THEN Scale(c, Mul(q, Pow(Div(r.b, r.t), 2)))
        ELSE Mul(Mul(c, q), Pow(Div(r.b, r.t), 2))

\* -alpha(ratio) * q * b ** 4 / (E * t ** 3)
deflection_max(r, q) ==
    LET c == interp1d(alpha, r.ratio)
    IN  IF HasTail(c)
        THEN Scale(c, RNeg(RMul(RMul(q, RPow(r.b, 4)),
                                RInv(RMul(r.E, Pow(r.t, 3))))))
        ELSE RNeg(RMul(RMul(RMul(c, q), RPow(r.b, 4)),
                       RInv(RMul(r.E, Pow(r.t, 3)))))

\* gamma(ratio) * q * b
reaction_max(r, q) ==
    LET c == interp1d(gamma, r.ratio)
    IN  IF HasTail(c) THEN Scale(c, RMul(q, r.b))
        ELSE RMul(RMul(c, q), r.b)

\* the float a numpy division by zero gives: inf, -inf or nan by the sign
\* of the numerator
DivisionByZero(sign) == <<1, sign, 0>>

Sign(x) == IF x[2] > 0 THEN 1 ELSE IF x[2] < 0 THEN -1 ELSE 0

\* a call of stress_max: b / t is a division of two pint quantities and
\* raises for t = 0
Roarks4side_stress_max(r, q) ==
    IF IsZero(r.t) THEN [val |-> None, err |-> ZeroDivisionError]
    ELSE [val |-> stress_max(r, q), err |-> NoError]

\* a call of deflection_max: the numerator is a numpy float, a zero
\* E * t ** 3 gives an infinity or a nan and no exception
Roarks4side_deflection_max(r, q) ==
    IF IsZero(r.E) \/ IsZero(r.t)
    THEN [val |-> DivisionByZero(Sign(RNeg(RMul(q, r.b)))), err |-> NoError]
    ELSE [val |-> deflection_max(r, q), err |-> NoError]

\* a call of reaction_max
Roarks4side_reaction_max(r, q) ==
    [val |-> reaction_max(r, q), err |-> NoError]

-----------------------------------------------------------------------------
(* glass_types.py: GlassType and its registry; stresses in MPa *)

NoGlassType ==
    [stress_surface |-> None, stress_edge |-> None, duration_factor |-> None,
     coef_variation |-> None, surf_factors |-> None]

\* the keyword arguments register_glass_type stores under a name
GlassTypeData(stress_surface, stress_edge, duration_factor, coef_variation, surf_factors) ==
    [stress_surface |-> stress_surface, stress_edge |-> stress_edge,
     duration_factor |-> duration_factor, coef_variation |-> coef_variation,
     surf_factors |-> surf_factors]

\* GlassType.__init__: the five setters in the order of the constructor
GlassType_init(d) ==
    IF IsNeg(d.stress_surface)
    THEN [obj |-> NoGlassType,
          err |-> ValueError(
                   "The base allowable surface stress cannot be lessthan zero.")]
    ELSE IF IsNeg(d.stress_edge)
    THEN [obj |-> [NoGlassType EXCEPT !.stress_surface = d.stress_surface],
          err |-> ValueError(
                   "The base allowable edge stress cannot be less than zero.")]
    ELSE IF IsNeg(d.duration_factor)
    THEN [obj |-> [NoGlassType EXCEPT !.stress_surface = d.stress_surface,
                                      !.stress_edge = d.stress_edge],
          err |-> ValueError("The duration factor cannot be less than 0.")]
    ELSE [obj |-> d, err |-> NoError]

\* the setters of a GlassType instance
stress_surface_setter(gt, value) ==
    IF IsNeg(value)
    THEN [obj |-> gt,
          err |-> ValueError(
                   "The base allowable surface stress cannot be lessthan zero.")]
    ELSE [obj |-> [gt EXCEPT !.stress_surface = value], err |-> NoError]

stress_edge_setter(gt, value) ==
    IF IsNeg(value)
    THEN [obj |-> gt,
          err |-> ValueError(
                   "The base allowable edge stress cannot be less than zero.")]
    ELSE [obj |-> [gt EXCEPT !.stress_edge = value], err |-> NoError]

duration_factor_setter(gt, value) ==
    IF IsNeg(value)
    THEN [obj |-> gt,
          err |-> ValueError("The duration factor cannot be less than 0.")]
    ELSE [obj |-> [gt EXCEPT !.duration_factor = value], err |-> NoError]

coef_variation_setter(gt, value) ==
    [obj |-> [gt EXCEPT !.coef_variation = value], err |-> NoError]

surf_factors_setter(gt, value) ==
    [obj |-> [gt EXCEPT !.surf_factors = value], err |-> NoError]

\* gt.<attr> = value
GlassType_setter(gt, attr, value) ==
    CASE attr = "stress_surface" -> stress_surface_setter(gt, value)
      [] attr = "stress_edge" -> stress_edge_setter(gt, value)
      [] attr = "duration_factor" -> duration_factor_setter(gt, value)
      [] attr = "coef_variation" -> coef_variation_setter(gt, value)
      [] attr = "surf_factors" -> surf_factors_setter(gt, value)

\* GlassType.from_name: the message of the else branch divides a str by a
\* str, which raises TypeError before the ValueError is made
GlassType_from_name(reg, name) ==
    IF name \in DOMAIN reg THEN GlassType_init(reg[name])
    ELSE [obj |-> NoGlassType, err |-> TypeError]

AbbrKeyError(abbr) ==
    <<"ValueError", "The register does not contain the abbr key ", abbr, ".">>

\* GlassType.from_abbr
GlassType_from_abbr(reg, abbrs, abbr) ==
    IF abbr \in DOMAIN abbrs THEN GlassType_init(reg[abbrs[abbr]])
    ELSE [obj |-> NoGlassType, err |-> AbbrKeyError(abbr)]

\* the messages put the name between backquotes
NameInUseError(name) ==
    <<"ValueError", "Name identifier already in use. Deregister ", name,
      " first.">>

AbbrInUseError(name) ==
    <<"ValueError", "Abbreviation identifier already in use. Deregister ",
      name, " first.">>

\* no abbr given: abbr=None
NoAbbr == ""

\* register_glass_type(name, ..., abbr=abbr) on the two dictionaries
register_glass_type(reg, abbrs, name, data, abbr) ==
    IF name \in DOMAIN reg
    THEN [reg |-> reg, abbrs |-> abbrs, err |-> NameInUseError(name)]
    ELSE IF abbr # NoAbbr /\ abbr \in DOMAIN abbrs
    THEN [reg |-> reg, abbrs |-> abbrs, err |-> AbbrInUseError(abbrs[abbr])]
    ELSE [reg |-> [n \in (DOMAIN reg) \cup {name} |->
                      IF n = name THEN data ELSE reg[n]],
          abbrs |-> IF abbr = NoAbbr THEN abbrs
                    ELSE [a \in (DOMAIN abbrs) \cup {abbr} |->
                             IF a = abbr THEN name ELSE abbrs[a]],
          err |-> NoError]

\* deregister_glass_type(name): the first abbreviation whose value is name
\* is popped (a name has one abbreviation at most), then the name
deregister_glass_type(reg, abbrs, name) ==
    LET found == {a \in DOMAIN abbrs : abbrs[a] = name}
        abbr == CHOOSE a \in found : TRUE
    IN  [reg |-> [n \in (DOMAIN reg) \ {name} |-> reg[n]],
         abbrs |-> IF found = {} THEN abbrs
                   ELSE [a \in (DOMAIN abbrs) \ {abbr} |-> abbrs[a]],
         err |-> NoError]

\* get_glass_types_data(): copy.deepcopy(_glass_type_registry)
get_glass_types_data(reg, abbrs) == reg

\* get_abbr_data(): copy.deepcopy(_glass_type_registry)
get_abbr_data(reg, abbrs) == reg

\* surf_factors of the three common glass types
CommonSurfFactors ==
    ("None" :> One) @@ ("Fritted" :> One) @@ ("Acid etching" :> R(1, 2)) @@
    ("Sandblasting" :> R(1, 2))

\* the three register_glass_type calls of the module, lines 450-496
InitGlassTypes ==
    LET r0 == [reg |-> <<>>, abbrs |-> <<>>]
        r1 == register_glass_type(r0.reg, r0.abbrs, "Annealed",
                  GlassTypeData(R(233, 10), R(183, 10), Num(16),
                                R(22, 100), CommonSurfFactors), "AN")
        r2 == register_glass_type(r1.reg, r1.abbrs, "Heat Strengthened",
                  GlassTypeData(R(466, 10), R(365, 10), R(317, 10),
                                R(15, 100), CommonSurfFactors), "HS")
    IN  register_glass_type(r2.reg, r2.abbrs, "Fully Tempered",
            GlassTypeData(R(931, 10), Num(73), R(475, 10), R(1, 10),
                          CommonSurfFactors), "FT")

-----------------------------------------------------------------------------
(* demands.py: IGUWindDemands *)

\* an instance before __init__ has set anything; attrs lists what is set
NoIGU ==
    [attrs |-> {}, wind_load |-> None, buildup |-> <<>>, LSF |-> <<>>,
     stress |-> <<>>, deflection |-> <<>>, dim_x |-> None, dim_y |-> None]

\* a constructor that never finds a repeated object
HasDuplicates_never(buildup) == FALSE

\* len(buildup) != len(set(buildup))
HasDuplicates(buildup) == Len(buildup) # Cardinality(SeqToSet(buildup))

\* x.E * (x.h_efw) ** 3
Stiffness(lite) == RMul(lite.E, Pow(lite.h_efw, 3))

\* a buildup setter whose denominator is the stiffness of the first lite
buildup_setter_first_only(P, obj, value) ==
    LET o1 == [obj EXCEPT !.buildup = value, !.attrs = @ \cup {"_buildup"}]
        denom == IF Len(value) > 0 THEN Stiffness(P[value[1]]) ELSE Zero
    IN  IF Len(value) > 0 /\ IsZero(denom)
        THEN [obj |-> o1, err |-> ZeroDivisionError]
        ELSE [obj |-> [o1 EXCEPT
                         !.LSF = [id \in SeqToSet(value) |->
                                     RMul(Stiffness(P[id]), RInv(denom))],
                         !.attrs = @ \cup {"_LSF"}],
              err |-> NoError]

\* buildup setter: the denominator, then the load share factor of each lite
buildup_setter(P, obj, value) ==
    LET o1 == [obj EXCEPT !.buildup = value, !.attrs = @ \cup {"_buildup"}]
        denom == RSum([i \in 1..Len(value) |-> Stiffness(P[value[i]])])
    IN  IF Len(value) > 0 /\ IsZero(denom)
        THEN [obj |-> o1, err |-> ZeroDivisionError]
        ELSE [obj |-> [o1 EXCEPT
                         !.LSF = [id \in SeqToSet(value) |->
                                     RMul(Stiffness(P[id]), RInv(denom))],
                         !.attrs = @ \cup {"_LSF"}],
              err |-> NoError]

IGU_dim_x_setter(obj, value) ==
    IF IsNeg(value)
    THEN [obj |-> obj, err |-> ValueError("Dimensions must be greater than zero.")]
    ELSE [obj |-> [obj EXCEPT !.dim_x = value, !.attrs = @ \cup {"_dim_x"}],
          err |-> NoError]

IGU_dim_y_setter(obj, value) ==
    IF IsNeg(value)
    THEN [obj |-> obj, err |-> ValueError("Dimensions must be greater than zero.")]
    ELSE [obj |-> [obj EXCEPT !.dim_y = value, !.attrs = @ \cup {"_dim_y"}],
          err |-> NoError]

wind_load_setter(obj, value) ==
    [obj |-> [obj EXCEPT !.wind_load = value,
                         !.attrs = @ \cup {"_wind_load"}],
     err |-> NoError]

IGUWindDemands_init(P, buildup, wind_load, dim_x, dim_y) ==
    IF HasDuplicates(buildup)
    THEN [obj |-> NoIGU,
          err |-> ValueError(
                   "The buildup must contain unique objects, use deep copy.")]
    ELSE LET s1 == wind_load_setter(NoIGU, wind_load)
             s2 == buildup_setter(P, s1.obj, buildup)
             o3 == [s2.obj EXCEPT !.stress = <<>>, !.deflection = <<>>,
                                  !.attrs = @ \cup {"_stress", "_deflection"}]
             s4 == IGU_dim_x_setter(o3, dim_x)
             s5 == IGU_dim_y_setter(s4.obj, dim_y)
         IN  IF s2.err # NoError THEN s2
             ELSE IF s4.err # NoError THEN s4
             ELSE s5

\* the body of the loop of solve() for one lite: the plate, the stress of
\* each (ply, h_efs) item, the deflection with h_efw
SolveLite(P, obj, id) ==
    LET lite == P[id]
        c == Roarks4side_init(Q("[pressure]", lite.E),
                              Q("[length]", obj.dim_x),
                              Q("[length]", obj.dim_y), DefaultPlateT)
        lite_load == RMul(obj.wind_load, obj.LSF[id])
        plate(t) == Roarks4side_t_setter(c.obj, t).obj
        keys == DOMAIN lite.h_efs
    IN  IF c.err # NoError THEN [obj |-> obj, err |-> c.err]
        ELSE [obj |-> [obj EXCEPT
                 !.stress = [p \in (DOMAIN @) \cup keys |->
                                IF p \in keys
                                THEN stress_max(plate(lite.h_efs[p]),
                                                lite_load)
                                ELSE @[p]],
                 !.deflection = [k \in (DOMAIN @) \cup {id} |->
                                IF k = id
                                THEN deflection_max(plate(lite.h_efw),
                                                    lite_load)
                                ELSE @[k]]],
              err |-> NoError]

\* for lite in self.buildup, from position i on; an exception ends the loop
RECURSIVE SolveFrom(_, _, _)
SolveFrom(P, obj, i) ==
    IF i > Len(obj.buildup) THEN [obj |-> obj, err |-> NoError]
    ELSE LET s == SolveLite(P, obj, obj.buildup[i])
         IN  IF s.err # NoError THEN s ELSE SolveFrom(P, s.obj, i + 1)

solve(P, obj) == SolveFrom(P, obj, 1)

-----------------------------------------------------------------------------
(* The calls a client makes on plies and laminates *)

NoCall == [op |-> "none", id |-> "", plys |-> <<>>, arg |-> None]

\* the record of a call: its arguments are kept when it raised
Call(op, id, plys, arg, e) ==
    IF e = NoError THEN [NoCall EXCEPT !.op = op, !.id = id]
    ELSE [op |-> op, id |-> id, plys |-> plys, arg |-> arg]

\* the layers the client puts into ply lists
LamLayerIds == {"g1", "g2", "i1"}

\* [ply1, interlayer, ply2, interlayer, ply3] of test_invalid_packages
FiveElementList == <<"g1", "i1", "g2", "i1", "g3">>

PlyLists ==
    UNION {[1..n -> LamLayerIds] : n \in 0..MaxPlyListLen}
        \cup {FiveElementList}

EValues == {Num(-1), Num(70), DefaultE}
PanelMinDimValues == {Num(-10), Zero, Num(10), Num(20)}

InitLayers ==
    {[id \in LayerIds |->
        CASE id = "g1" -> GlassPly(Num(4))
          [] id = "g2" -> GlassPly(Num(6))
          [] id = "g3" -> GlassPly(Num(5))
          [] id = "i1" -> Interlayer_from_static(Num(1), R(717, 1000))]}

\* name = Class(plys[, panel_min_dim]); the name is bound when __init__ returns
Construct(id, cls, plys, panel_min_dim) ==
    /\ err = NoError
    /\ \E r \in {NewLaminate(layers, cls, plys, panel_min_dim)} :
           /\ pkgAttempt' = IF r.err = NoError THEN NoObject ELSE r.obj
           /\ err' = r.err
           /\ pkg' = IF r.err = NoError THEN [pkg EXCEPT ![id] = r.obj] ELSE pkg
           /\ last' = Call("construct", id, plys,
                           IF cls = "ShearTransferCoefMethod"
                           THEN panel_min_dim ELSE None, r.err)
           /\ UNCHANGED <<layers, igu, iguAttempt, registry, layerAttempt,
                          aux>>

\* name.ply = plys
SetPly(id, plys) ==
    /\ err = NoError
    /\ pkg[id].cls # "None"
    /\ \E r \in {ply_setter(layers, pkg[id], plys)} :
           /\ pkg' = [pkg EXCEPT ![id] = r.obj]
           /\ err' = r.err
           /\ last' = Call("set_ply", id, plys, None, r.err)
           /\ UNCHANGED <<layers, pkgAttempt, igu, iguAttempt, registry,
                          layerAttempt, aux>>

\* name.panel_min_dim = value
SetPanelMinDim(id, value) ==
    /\ err = NoError
    /\ pkg[id].cls = "ShearTransferCoefMethod"
    /\ \E r \in {panel_min_dim_setter(layers, pkg[id], value)} :
           /\ pkg' = [pkg EXCEPT ![id] = r.obj]
           /\ err' = r.err
           /\ last' = Call("set_panel_min_dim", id, <<>>, value, r.err)
           /\ UNCHANGED <<layers, pkgAttempt, igu, iguAttempt, registry,
                          layerAttempt, aux>>

BetaValues == {Num(5), Beta96}

\* name.beta = value
SetBeta(id, value) ==
    /\ err = NoError
    /\ pkg[id].cls = "ShearTransferCoefMethod"
    /\ \E r \in {beta_setter(pkg[id], value)} :
           /\ pkg' = [pkg EXCEPT ![id] = r.obj]
           /\ err' = r.err
           /\ last' = Call("set_beta", id, <<>>, value, r.err)
           /\ UNCHANGED <<layers, pkgAttempt, igu, iguAttempt, registry,
                          layerAttempt, aux>>

\* ply.E = value
SetPlyE(p, value) ==
    /\ err = NoError
    /\ \E r \in {GlassPly_E_setter(layers[p], value)} :
           /\ layers' = [layers EXCEPT ![p] = r.obj]
           /\ err' = r.err
           /\ last' = Call("set_E", p, <<>>, value, r.err)
           /\ UNCHANGED <<pkg, pkgAttempt, igu, iguAttempt, registry,
                          layerAttempt, aux>>

-----------------------------------------------------------------------------
(* The calls a client makes on an IGUWindDemands *)

Buildups == UNION {[1..n -> PkgIds] : n \in 0..MaxBuildupLen}

WindLoadValues == {Num(1), Num(2)}
DimValues == {Num(-1), Zero, Num(4), Num(8)}

\* panel = IGUWindDemands(buildup, wind_load, dim_x, dim_y)
IGUConstruct(buildup, wind_load, dim_x, dim_y) ==
    /\ err = NoError
    /\ \E r \in {IGUWindDemands_init(pkg, buildup, wind_load, dim_x, dim_y)} :
           /\ iguAttempt' = IF r.err = NoError THEN NoIGU ELSE r.obj
           /\ err' = r.err
           /\ igu' = IF r.err = NoError THEN r.obj ELSE igu
           /\ last' = Call("igu_construct", "", buildup,
                           <<wind_load, dim_x, dim_y>>, r.err)
           /\ UNCHANGED <<layers, pkg, pkgAttempt, registry, layerAttempt,
                          aux>>

IsConstructed(obj) == "_dim_y" \in obj.attrs

\* panel.dim_x = value
IGUSetDimX(value) ==
    /\ err = NoError
    /\ IsConstructed(igu)
    /\ \E r \in {IGU_dim_x_setter(igu, value)} :
           /\ igu' = r.obj
           /\ err' = r.err
           /\ last' = Call("set_dim_x", "", <<>>, value, r.err)
           /\ UNCHANGED <<layers, pkg, pkgAttempt, iguAttempt, registry,
                          layerAttempt, aux>>

\* panel.dim_y = value
IGUSetDimY(value) ==
    /\ err = NoError
    /\ IsConstructed(igu)
    /\ \E r \in {IGU_dim_y_setter(igu, value)} :
           /\ igu' = r.obj
           /\ err' = r.err
           /\ last' = Call("set_dim_y", "", <<>>, value, r.err)
           /\ UNCHANGED <<layers, pkg, pkgAttempt, iguAttempt, registry,
                          layerAttempt, aux>>

\* panel.wind_load = value
IGUSetWindLoad(value) ==
    /\ err = NoError
    /\ IsConstructed(igu)
    /\ \E r \in {wind_load_setter(igu, value)} :
           /\ igu' = r.obj
           /\ err' = r.err
           /\ last' = Call("set_wind_load", "", <<>>, value, r.err)
           /\ UNCHANGED <<layers, pkg, pkgAttempt, iguAttempt, registry,
                          layerAttempt, aux>>

\* panel.buildup = value
IGUSetBuildup(value) ==
    /\ err = NoError
    /\ IsConstructed(igu)
    /\ \E r \in {buildup_setter(pkg, igu, value)} :
           /\ igu' = r.obj
           /\ err' = r.err
           /\ last' = Call("set_buildup", "", value, None, r.err)
           /\ UNCHANGED <<layers, pkg, pkgAttempt, iguAttempt, registry,
                          layerAttempt, aux>>

\* panel.solve()
Solve ==
    /\ err = NoError
    /\ IsConstructed(igu)
    /\ \E r \in {solve(pkg, igu)} :
           /\ igu' = r.obj
           /\ err' = r.err
           /\ last' = Call("solve", "", <<>>, None, r.err)
           /\ UNCHANGED <<layers, pkg, pkgAttempt, iguAttempt, registry,
                          layerAttempt, aux>>

\* the client's except clause: the exception is handled and the instance a
\* failed constructor worked on is dropped
Except ==
    /\ err # NoError
    /\ err' = NoError
    /\ pkgAttempt' = NoObject
    /\ iguAttempt' = NoIGU
    /\ layerAttempt' = NoLayer
    /\ last' = [NoCall EXCEPT !.op = "except"]
    /\ UNCHANGED <<layers, pkg, igu, registry, aux>>

-----------------------------------------------------------------------------
(* The calls a client makes on a GlassPly *)

\* the record of a call with its arguments, kept also when it returned
CallWith(op, id, arg) == [op |-> op, id |-> id, plys |-> <<>>, arg |-> arg]

\* the nominal thicknesses of the two tables, each in the unit of its table,
\* two of the imperial table given in mm (1/4 in and 7/8 in), two of the
\* metric table given in inches (8 mm and 10 mm), and lengths that are in
\* neither
NominalValues ==
    {Length(k, "mm") : k \in DOMAIN t_min_lookup_metric}
        \cup {Length(k, "in") : k \in DOMAIN t_min_lookup_imperial}
        \cup {Length(R(635, 100), "mm"), Length(R(22225, 1000), "mm")}
        \cup {Length(R(40, 127), "in"), Length(R(50, 127), "in")}
        \cup {Length(Num(7), "mm"), Length(R(3, 10), "in"),
              Length(Num(6), "in"), Length(Num(-6), "mm")}

ActualValues == {Num(-1), Zero, R(556, 100)}

\* ply = GlassPly.from_nominal_thickness(t_nom)
FromNominalThickness(p, t_nom) ==
    /\ err = NoError
    /\ \E r \in {from_nominal_thickness(t_nom)} :
           /\ layers' = IF r.err = NoError THEN [layers EXCEPT ![p] = r.obj]
                        ELSE layers
           /\ layerAttempt' = IF r.err = NoError THEN NoLayer ELSE r.obj
           /\ err' = r.err
           /\ last' = CallWith("from_nominal_thickness", p, t_nom)
           /\ UNCHANGED <<pkg, pkgAttempt, igu, iguAttempt, registry, aux>>

\* ply = GlassPly.from_actual_thickness(t_act)
FromActualThickness(p, t_act) ==
    /\ err = NoError
    /\ \E r \in {from_actual_thickness(t_act)} :
           /\ layers' = IF r.err = NoError THEN [layers EXCEPT ![p] = r.obj]
                        ELSE layers
           /\ layerAttempt' = IF r.err = NoError THEN NoLayer ELSE r.obj
           /\ err' = r.err
           /\ last' = CallWith("from_actual_thickness", p, t_act)
           /\ UNCHANGED <<pkg, pkgAttempt, igu, iguAttempt, registry, aux>>

\* ply.t_nom = value
SetTNom(p, value) ==
    /\ err = NoError
    /\ IsGlassPly(layers, p)
    /\ \E r \in {t_nom_setter(layers[p], value)} :
           /\ layers' = [layers EXCEPT ![p] = r.obj]
           /\ err' = r.err
           /\ last' = CallWith("set_t_nom", p, value)
           /\ UNCHANGED <<pkg, pkgAttempt, igu, iguAttempt, registry,
                          layerAttempt, aux>>

\* ply.t_min = value
SetTMin(p, value) ==
    /\ err = NoError
    /\ IsGlassPly(layers, p)
    /\ \E r \in {t_min_setter(layers[p], value)} :
           /\ layers' = [layers EXCEPT ![p] = r.obj]
           /\ err' = r.err
           /\ last' = CallWith("set_t_min", p, value)
           /\ UNCHANGED <<pkg, pkgAttempt, igu, iguAttempt, registry,
                          layerAttempt, aux>>

-----------------------------------------------------------------------------
(* The calls a client makes on the product registry and on an Interlayer *)

\* data of test_valid_product_data
valid_data ==
    Entry(20, 3, "sec", R(240, 1000)) @@
    Entry(30, 3, "sec", R(217, 1000)) @@
    Entry(40, 3, "sec", R(151, 1000)) @@
    Entry(20, 10, "min", R(770, 10000)) @@
    Entry(30, 10, "min", R(362, 10000)) @@
    Entry(40, 10, "min", R(118, 10000))

\* invalid_data of test_invalid_product_data: no entry for (20 degC, 10 min)
invalid_data ==
    Entry(20, 3, "sec", R(240, 1000)) @@
    Entry(30, 3, "sec", R(217, 1000)) @@
    Entry(40, 3, "sec", R(151, 1000)) @@
    Entry(30, 10, "min", R(362, 10000)) @@
    Entry(40, 10, "min", R(118, 10000))

\* tables with one temperature, with one duration, with one entry, and
\* with no entry
one_temperature ==
    Entry(20, 3, "sec", R(240, 1000)) @@
    Entry(20, 10, "min", R(770, 10000))

one_duration ==
    Entry(20, 3, "sec", R(240, 1000)) @@
    Entry(30, 3, "sec", R(217, 1000))

one_entry == Entry(20, 3, "sec", R(240, 1000))

no_entry == [k \in {} |-> Zero]

SmallTables == {one_temperature, one_duration, one_entry, no_entry}

Tables == {valid_data, invalid_data, data_PVB} \cup SmallTables

RegisterNames == {"product_ID_1", "PVB NCSEA"}
ProductNames == RegisterNames \cup {"Ionoplast Interlayer NCSEA"}

\* thicknesses and shear moduli given to the two class methods
ThicknessValues == {Zero, R(152, 100)}
ShearModulusValues == {Zero, R(281, 1000000)}

\* temperatures in degC and durations in seconds: a key of every table, a
\* point between keys, a point beyond the last key
TemperatureValues == {Num(20), Num(35), Num(90)}
DurationValues == {Num(3), Num(300), Num(1000000000)}

\* register_interlayer_product(name, data)
Register(name, data) ==
    /\ err = NoError
    /\ \E r \in {register_interlayer_product(registry, name, data)} :
           /\ registry' = r.reg
           /\ err' = r.err
           /\ last' = CallWith("register", name, Some(data))
           /\ UNCHANGED <<layers, pkg, pkgAttempt, igu, iguAttempt,
                          layerAttempt, aux>>

\* deregister_interlayer_product(name)
Deregister(name) ==
    /\ err = NoError
    /\ \E r \in {deregister_interlayer_product(registry, name)} :
           /\ registry' = r.reg
           /\ err' = r.err
           /\ last' = CallWith("deregister", name, None)
           /\ UNCHANGED <<layers, pkg, pkgAttempt, igu, iguAttempt,
                          layerAttempt, aux>>

\* interlayer = Interlayer.from_product_table(t, name)
FromProductTable(p, t, name) ==
    /\ err = NoError
    /\ \E r \in {from_product_table(registry, t, name)} :
           /\ layers' = IF r.err = NoError THEN [layers EXCEPT ![p] = r.obj]
                        ELSE layers
           /\ layerAttempt' = IF r.err = NoError THEN NoLayer ELSE r.obj
           /\ err' = r.err
           /\ last' = CallWith("from_product_table", p, <<t, name>>)
           /\ UNCHANGED <<pkg, pkgAttempt, igu, iguAttempt, registry, aux>>

\* interlayer = Interlayer.from_static(t, G)
FromStatic(p, t, G) ==
    /\ err = NoError
    /\ \E r \in {from_static(t, G)} :
           /\ layers' = IF r.err = NoError THEN [layers EXCEPT ![p] = r.obj]
                        ELSE layers
           /\ layerAttempt' = IF r.err = NoError THEN NoLayer ELSE r.obj
           /\ err' = r.err
           /\ last' = CallWith("from_static", p, <<t, G>>)
           /\ UNCHANGED <<pkg, pkgAttempt, igu, iguAttempt, registry, aux>>

\* interlayer = Interlayer(t, G_table=data)
NewInterlayer(p, t, data) ==
    /\ err = NoError
    /\ \E r \in {Interlayer_init(t, None, Some(data))} :
           /\ layers' = IF r.err = NoError THEN [layers EXCEPT ![p] = r.obj]
                        ELSE layers
           /\ layerAttempt' = IF r.err = NoError THEN NoLayer ELSE r.obj
           /\ err' = r.err
           /\ last' = CallWith("interlayer_init", p, <<t, Some(data)>>)
           /\ UNCHANGED <<pkg, pkgAttempt, igu, iguAttempt, registry, aux>>

\* a read of a property: nothing changes, last.arg is the value read
Read(op, p, r) ==
    /\ err' = r.err
    /\ last' = CallWith(op, p, r.val)
    /\ UNCHANGED <<layers, pkg, pkgAttempt, igu, iguAttempt, registry,
                   layerAttempt, aux>>

\* interlayer.temperature
ReadTemperature(p) ==
    /\ err = NoError
    /\ IsInterlayer(layers, p)
    /\ Read("read_temperature", p, temperature_getter(layers[p]))

\* interlayer.duration
ReadDuration(p) ==
    /\ err = NoError
    /\ IsInterlayer(layers, p)
    /\ Read("read_duration", p, duration_getter(layers[p]))

\* interlayer.G
ReadG(p) ==
    /\ err = NoError
    /\ IsInterlayer(layers, p)
    /\ Read("read_G", p, Interlayer_G(layers[p]))

\* interlayer.temperature = value
SetTemperature(p, value) ==
    /\ err = NoError
    /\ IsInterlayer(layers, p)
    /\ \E r \in {temperature_setter(layers[p], value)} :
           /\ layers' = [layers EXCEPT ![p] = r.obj]
           /\ err' = r.err
           /\ last' = CallWith("set_temperature", p, value)
           /\ UNCHANGED <<pkg, pkgAttempt, igu, iguAttempt, registry,
                          layerAttempt, aux>>

\* interlayer.duration = value
SetDuration(p, value) ==
    /\ err = NoError
    /\ IsInterlayer(layers, p)
    /\ \E r \in {duration_setter(layers[p], value)} :
           /\ layers' = [layers EXCEPT ![p] = r.obj]
           /\ err' = r.err
           /\ last' = CallWith("set_duration", p, value)
           /\ UNCHANGED <<pkg, pkgAttempt, igu, iguAttempt, registry,
                          layerAttempt, aux>>

-----------------------------------------------------------------------------
(* The calls a client makes on a Roarks4side *)

\* sides that give the ratios 1, 3/2, 8, 12, 64/3, 32 and 256
PlateDimValues == {Num(-5), Zero, R(1, 4), Num(2), Num(3), Num(64)}
PlateTValues == {Num(-1), Zero, Num(1)}
PlateEValues == {Num(-200), Zero, Num(70)}
LoadValues == {Num(1)}

\* rk4s = Roarks4side(dim_x, dim_y, E, t)
PlateConstruct(dim_x, dim_y, E, t) ==
    /\ err = NoError
    /\ \E r \in {Roarks4side_init(Q("[length]", dim_x), Q("[length]", dim_y),
                                  Q("[pressure]", E), Q("[length]", t))} :
           /\ rk4s' = IF r.err = NoError THEN r.obj ELSE rk4s
           /\ err' = r.err
           /\ last' = CallWith("plate_construct", "rk4s",
                               <<dim_x, dim_y, E, t>>)
           /\ UNCHANGED <<layers, pkg, pkgAttempt, igu, iguAttempt, registry,
                          layerAttempt, _glass_type_registry,
                          _glass_type_abbr, held>>

\* an assignment to an attribute of the plate: the object is changed in
\* place, also by a setter that raises after it has stored something
PlateSet(op, value, r) ==
    /\ rk4s' = r.obj
    /\ err' = r.err
    /\ last' = CallWith(op, "rk4s", value)
    /\ UNCHANGED <<layers, pkg, pkgAttempt, igu, iguAttempt, registry,
                   layerAttempt, _glass_type_registry, _glass_type_abbr,
                   held>>

\* rk4s.dim_x = value
PlateSetDimX(value) ==
    /\ err = NoError
    /\ rk4s # NoPlate
    /\ PlateSet("plate_set_dim_x", value,
                Roarks4side_dim_x_setter(rk4s, value))

\* rk4s.dim_y = value
PlateSetDimY(value) ==
    /\ err = NoError
    /\ rk4s # NoPlate
    /\ PlateSet("plate_set_dim_y", value,
                Roarks4side_dim_y_setter(rk4s, value))

\* rk4s.t = value
PlateSetT(value) ==
    /\ err = NoError
    /\ rk4s # NoPlate
    /\ PlateSet("plate_set_t", value, Roarks4side_t_setter(rk4s, value))

\* rk4s.E = value
PlateSetE(value) ==
    /\ err = NoError
    /\ rk4s # NoPlate
    /\ PlateSet("plate_set_E", value, Roarks4side_E_setter(rk4s, value))

\* a call of one of the three result methods: last.arg is the value returned
PlateResult(op, r) ==
    /\ err' = r.err
    /\ last' = CallWith(op, "rk4s", r.val)
    /\ UNCHANGED <<layers, pkg, pkgAttempt, igu, iguAttempt, registry,
                   layerAttempt, aux>>

\* rk4s.stress_max(q)
StressMax(q) ==
    /\ err = NoError
    /\ rk4s # NoPlate
    /\ PlateResult("stress_max", Roarks4side_stress_max(rk4s, q))

\* rk4s.deflection_max(q)
DeflectionMax(q) ==
    /\ err = NoError
    /\ rk4s # NoPlate
    /\ PlateResult("deflection_max", Roarks4side_deflection_max(rk4s, q))

\* rk4s.reaction_max(q)
ReactionMax(q) ==
    /\ err = NoError
    /\ rk4s # NoPlate
    /\ PlateResult("reaction_max", Roarks4side_reaction_max(rk4s, q))

-----------------------------------------------------------------------------
(* The calls a client makes on the glass type registry *)

\* the parameters of "My Fully Tempered" of the module docstring
MyFullyTempered ==
    GlassTypeData(R(931, 10), Num(73), R(475, 10), R(2, 10),
                  CommonSurfFactors)

GlassTypeNames == {"Annealed", "My Fully Tempered"}
GlassTypeAbbrs == {"AN", "MyFT"}

\* register_glass_type(name=name, ..., abbr=abbr)
RegisterGlassType(name, data, abbr) ==
    /\ err = NoError
    /\ \E r \in {register_glass_type(_glass_type_registry, _glass_type_abbr,
                                     name, data, abbr)} :
           /\ _glass_type_registry' = r.reg
           /\ _glass_type_abbr' = r.abbrs
           /\ err' = r.err
           /\ last' = CallWith("register_glass_type", name, abbr)
           /\ UNCHANGED <<layers, pkg, pkgAttempt, igu, iguAttempt, registry,
                          layerAttempt, rk4s, held>>

\* deregister_glass_type(name)
DeregisterGlassType(name) ==
    /\ err = NoError
    /\ \E r \in {deregister_glass_type(_glass_type_registry,
                                       _glass_type_abbr, name)} :
           /\ _glass_type_registry' = r.reg
           /\ _glass_type_abbr' = r.abbrs
           /\ err' = r.err
           /\ last' = CallWith("deregister_glass_type", name, None)
           /\ UNCHANGED <<layers, pkg, pkgAttempt, igu, iguAttempt, registry,
                          layerAttempt, rk4s, held>>

\* a call that returns a value to the client, or raises and returns none
Returns(op, id, r) ==
    /\ held' = IF r.err = NoError THEN r.obj ELSE held
    /\ err' = r.err
    /\ last' = CallWith(op, id, None)
    /\ UNCHANGED <<layers, pkg, pkgAttempt, igu, iguAttempt, registry,
                   layerAttempt, rk4s, _glass_type_registry,
                   _glass_type_abbr>>

\* gt = GlassType.from_name(name)
FromName(name) ==
    /\ err = NoError
    /\ Returns("from_name", name,
               GlassType_from_name(_glass_type_registry, name))

\* gt = GlassType.from_abbr(abbr)
FromAbbr(abbr) ==
    /\ err = NoError
    /\ Returns("from_abbr", abbr,
               GlassType_from_abbr(_glass_type_registry, _glass_type_abbr,
                                   abbr))

\* d = get_abbr_data()
GetAbbrData ==
    /\ err = NoError
    /\ Returns("get_abbr_data", "",
               [obj |-> get_abbr_data(_glass_type_registry,
                                      _glass_type_abbr),
                err |-> NoError])

\* d = get_glass_types_data()
GetGlassTypesData ==
    /\ err = NoError
    /\ Returns("get_glass_types_data", "",
               [obj |-> get_glass_types_data(_glass_type_registry,
                                             _glass_type_abbr),
                err |-> NoError])

GlassTypeAttrs ==
    {"stress_surface", "stress_edge", "duration_factor", "coef_variation",
     "surf_factors"}

\* the values a client assigns to an attribute of a GlassType
GlassTypeAttrValues(attr) ==
    CASE attr = "stress_surface" -> {Num(-1), Num(50)}
      [] attr = "stress_edge" -> {Num(-1), Num(40)}
      [] attr = "duration_factor" -> {Num(-1), Num(20)}
      [] attr = "coef_variation" -> {R(3, 10)}
      [] attr = "surf_factors" -> {"None" :> Num(2)}

\* the value the client holds is a GlassType instance
IsGlassType(h) == DOMAIN h = DOMAIN NoGlassType

\* gt.<attr> = value on the instance from_name or from_abbr returned
SetGlassTypeAttr(attr, value) ==
    /\ err = NoError
    /\ IsGlassType(held)
    /\ \E r \in {GlassType_setter(held, attr, value)} :
           /\ held' = r.obj
           /\ err' = r.err
           /\ last' = CallWith("set_attr", attr, value)
           /\ UNCHANGED <<layers, pkg, pkgAttempt, igu, iguAttempt, registry,
                          layerAttempt, rk4s, _glass_type_registry,
                          _glass_type_abbr>>

\* del d[key] on the dictionary a get_..._data call returned: a deep copy,
\* so the dictionaries of the module are not touched
DeleteFromReturned(key) ==
    /\ err = NoError
    /\ last.op \in {"get_abbr_data", "get_glass_types_data"}
    /\ key \in DOMAIN held
    /\ held' = [k \in (DOMAIN held) \ {key} |-> held[k]]
    /\ err' = NoError
    /\ last' = CallWith("del", key, None)
    /\ UNCHANGED <<layers, pkg, pkgAttempt, igu, iguAttempt, registry,
                   layerAttempt, rk4s, _glass_type_registry,
                   _glass_type_abbr>>

-----------------------------------------------------------------------------
(* Specifications *)

NoPackages == [id \in PkgIds |-> NoObject]

\* no rk4s yet, the three common glass types, nothing returned yet
InitAux ==
    /\ rk4s = NoPlate
    /\ _glass_type_registry = InitGlassTypes.reg
    /\ _glass_type_abbr = InitGlassTypes.abbrs
    /\ held = None

\* plies and an interlayer exist; the client builds and changes laminates
InitLaminate ==
    /\ layers \in InitLayers
    /\ pkg = NoPackages
    /\ pkgAttempt = NoObject
    /\ igu = NoIGU
    /\ iguAttempt = NoIGU
    /\ registry = InitRegistry
    /\ layerAttempt = NoLayer
    /\ InitAux
    /\ err = NoError
    /\ last = NoCall

NextLaminate ==
    \/ \E plys \in PlyLists : Construct("A", "MonolithicMethod", plys, None)
    \/ \E plys \in PlyLists : Construct("A", "NonCompositeMethod", plys, None)
    \/ \E plys \in PlyLists, d \in PanelMinDimValues :
           Construct("A", "ShearTransferCoefMethod", plys, d)
    \/ \E plys \in PlyLists : SetPly("A", plys)
    \/ \E d \in PanelMinDimValues : SetPanelMinDim("A", d)
    \/ \E b \in BetaValues : SetBeta("A", b)
    \/ \E e \in EValues : SetPlyE("g1", e)
    \/ Except

SpecLaminate == InitLaminate /\ [][NextLaminate]_vars

\* a client builds a ply and reassigns its thicknesses
NextPly ==
    \/ \E t \in NominalValues : FromNominalThickness("g1", t)
    \/ \E t \in ActualValues : FromActualThickness("g1", t)
    \/ \E t \in NominalValues : SetTNom("g1", t)
    \/ \E t \in ActualValues : SetTMin("g1", t)
    \/ Except

SpecPly == InitLaminate /\ [][NextPly]_vars

\* a client registers products, builds an interlayer and reads it
NextInterlayer ==
    \/ \E n \in RegisterNames, d \in Tables : Register(n, d)
    \/ \E n \in RegisterNames : Deregister(n)
    \/ \E t \in ThicknessValues, n \in ProductNames :
           FromProductTable("i1", t, n)
    \/ \E t \in ThicknessValues, G \in ShearModulusValues :
           FromStatic("i1", t, G)
    \/ \E d \in {valid_data, invalid_data} \cup SmallTables :
           NewInterlayer("i1", R(152, 100), d)
    \/ ReadTemperature("i1")
    \/ ReadDuration("i1")
    \/ ReadG("i1")
    \/ \E v \in TemperatureValues : SetTemperature("i1", v)
    \/ \E v \in DurationValues : SetDuration("i1", v)
    \/ Except

SpecInterlayer == InitLaminate /\ [][NextInterlayer]_vars

\* a client builds a rk4s, changes it and asks for its results
NextPlate ==
    \/ \E x \in PlateDimValues, y \in PlateDimValues, e \in PlateEValues,
          t \in PlateTValues : PlateConstruct(x, y, e, t)
    \/ \E v \in PlateDimValues : PlateSetDimX(v)
    \/ \E v \in PlateDimValues : PlateSetDimY(v)
    \/ \E v \in PlateTValues : PlateSetT(v)
    \/ \E v \in PlateEValues : PlateSetE(v)
    \/ \E q \in LoadValues : StressMax(q)
    \/ \E q \in LoadValues : DeflectionMax(q)
    \/ \E q \in LoadValues : ReactionMax(q)
    \/ Except

SpecPlate == InitLaminate /\ [][NextPlate]_vars

\* a client registers glass types, builds them and looks at the registry
NextGlassType ==
    \/ \E n \in GlassTypeNames, a \in GlassTypeAbbrs \cup {NoAbbr} :
           RegisterGlassType(n, MyFullyTempered, a)
    \/ \E n \in GlassTypeNames : DeregisterGlassType(n)
    \/ \E n \in GlassTypeNames : FromName(n)
    \/ \E a \in GlassTypeAbbrs : FromAbbr(a)
    \/ GetAbbrData
    \/ GetGlassTypesData
    \/ \E k \in GlassTypeNames \cup GlassTypeAbbrs : DeleteFromReturned(k)
    \/ \E a \in GlassTypeAttrs :
           \E v \in GlassTypeAttrValues(a) : SetGlassTypeAttr(a, v)
    \/ Except

SpecGlassType == InitLaminate /\ [][NextGlassType]_vars

\* temperatures in degC and durations in seconds that are keys of the
\* Ionoplast table: (20, 3 sec), (30, 3 sec), (20, 1 min), (30, 1 min)
ShearTemperatureValues == {Num(20), Num(30)}
ShearDurationValues == {Num(3), Num(60)}
ShearPanelMinDimValues == {Num(10), Num(20)}

\* interlayer = Interlayer.from_product_table(Q_(1, "mm"),
\* "Ionoplast Interlayer NCSEA"): no reference temperature or duration yet
InitShear ==
    /\ layers \in
           {[L EXCEPT !["i1"] =
                 from_product_table(InitRegistry, One,
                                    "Ionoplast Interlayer NCSEA").obj] :
                L \in InitLayers}
    /\ pkg = NoPackages
    /\ pkgAttempt = NoObject
    /\ igu = NoIGU
    /\ iguAttempt = NoIGU
    /\ registry = InitRegistry
    /\ layerAttempt = NoLayer
    /\ InitAux
    /\ err = NoError
    /\ last = NoCall

\* a client sets the conditions of a table-backed interlayer, builds a
\* ShearTransferCoefMethod with it and changes the conditions afterwards
NextShear ==
    \/ \E v \in ShearTemperatureValues : SetTemperature("i1", v)
    \/ \E v \in ShearDurationValues : SetDuration("i1", v)
    \/ \E d \in ShearPanelMinDimValues :
           Construct("A", "ShearTransferCoefMethod", <<"g1", "i1", "g2">>, d)
    \/ \E d \in ShearPanelMinDimValues : SetPanelMinDim("A", d)
    \/ SetPly("A", <<"g1", "i1", "g2">>)
    \/ ReadG("i1")
    \/ Except

SpecShear == InitShear /\ [][NextShear]_vars

\* the laminates a client has built before it sets up the panel
InitPkgA(L) ==
    {NewLaminate(L, "MonolithicMethod", <<"g1">>, None).obj,
     NewLaminate(L, "ShearTransferCoefMethod", <<"g1", "i1", "g2">>,
                 Num(10)).obj}

InitPkgB(L) == {NewLaminate(L, "MonolithicMethod", <<"g3">>, None).obj}

InitIGU ==
    /\ layers \in InitLayers
    /\ \E a \in InitPkgA(layers), b \in InitPkgB(layers) :
           pkg = [id \in PkgIds |-> IF id = "A" THEN a ELSE b]
    /\ pkgAttempt = NoObject
    /\ igu = NoIGU
    /\ iguAttempt = NoIGU
    /\ registry = InitRegistry
    /\ layerAttempt = NoLayer
    /\ InitAux
    /\ err = NoError
    /\ last = NoCall

NextIGU ==
    \/ \E b \in Buildups, w \in WindLoadValues, x \in DimValues,
          y \in DimValues : IGUConstruct(b, w, x, y)
    \/ \E x \in DimValues : IGUSetDimX(x)
    \/ \E y \in DimValues : IGUSetDimY(y)
    \/ \E w \in WindLoadValues : IGUSetWindLoad(w)
    \/ \E b \in Buildups : IGUSetBuildup(b)
    \/ Solve
    \/ Except

SpecIGU == InitIGU /\ [][NextIGU]_vars

\* the ply lists a client gives a laminate that a panel holds
PanelPlyLists == {<<"g1">>, <<"g2">>, <<"g1", "i1", "g2">>, <<"g2", "i1", "g1">>}

\* a client sets up a panel, changes its laminates and solves again
NextPanel ==
    \/ \E b \in Buildups : IGUConstruct(b, Num(1), Num(4), Num(8))
    \/ \E b \in Buildups : IGUSetBuildup(b)
    \/ \E d \in PanelMinDimValues : SetPanelMinDim("A", d)
    \/ \E id \in PkgIds, plys \in PanelPlyLists : SetPly(id, plys)
    \/ Solve
    \/ Except

SpecPanel == InitIGU /\ [][NextPanel]_vars

-----------------------------------------------------------------------------
(* What the properties below speak of *)

\* the instance the last call on a laminate worked on: the one a failed
\* constructor left behind, else the one held under the name
Target ==
    IF last.op = "construct" /\ err # NoError THEN pkgAttempt
    ELSE IF last.id \in PkgIds THEN pkg[last.id]
    ELSE NoObject

IsPlyValidationError(e) ==
    Len(e) = 3 /\ e[1] = "ValueError" /\ e[2] = "Ply validation failed: "

\* exactly [GlassPly, Interlayer, GlassPly]
GlassInterlayerGlass(L, plys) ==
    /\ Len(plys) = 3
    /\ L[plys[1]].kind = "GlassPly"
    /\ L[plys[2]].kind = "Interlayer"
    /\ L[plys[3]].kind = "GlassPly"

\* one GlassPly or more, all with one elastic modulus
AllGlassSameE(L, plys) ==
    /\ Len(plys) > 0
    /\ \A i \in 1..Len(plys) : L[plys[i]].kind = "GlassPly"
    /\ \A i, j \in 1..Len(plys) : L[plys[i]].E = L[plys[j]].E

\* the same laminate at two positions of the buildup
Repeats(buildup) ==
    \E i, j \in 1..Len(buildup) : i # j /\ buildup[i] = buildup[j]

\* laminates of different formulations in one buildup
Mixed(P, buildup) ==
    \E i, j \in 1..Len(buildup) : P[buildup[i]].cls # P[buildup[j]].cls

IsPositive(x) == RLt(Zero, x)

-----------------------------------------------------------------------------
(* IGUWindDemands *)

\* C1 (as the specification states it): solve() on a panel with a non-empty
\* buildup of distinct laminates and positive dimensions returns without
\* raising, and afterwards the deflection map has an entry for every laminate
\* of the buildup and the stress map one for every ply of their h_efs maps.
C1_SolveReturns ==
    (/\ last.op = "solve"
     /\ Len(igu.buildup) > 0
     /\ ~Repeats(igu.buildup)
     /\ IsPositive(igu.dim_x)
     /\ IsPositive(igu.dim_y))
    => /\ err = NoError
       /\ DOMAIN igu.deflection = SeqToSet(igu.buildup)
       /\ DOMAIN igu.stress =
              UNION {DOMAIN pkg[id].h_efs : id \in SeqToSet(igu.buildup)}

\* C2 (as the specification states it): a constructor call that returned
\* did not get a buildup with laminates of different formulations.
C2_MixedRejected ==
    (last.op = "igu_construct" /\ err = NoError) => ~Mixed(pkg, igu.buildup)

\* C3: a constructor call whose buildup holds the same laminate twice raises
\* the ValueError about unique objects and has set no attribute of the
\* instance (no load share factor among them); a constructor call that
\* returned had no repeated laminate.
C3_DuplicateRejected ==
    last.op = "igu_construct"
    => /\ err = NoError => ~Repeats(igu.buildup)
       /\ (err # NoError /\ Repeats(last.plys))
          => /\ err = ValueError(
                    "The buildup must contain unique objects, use deep copy.")
             /\ iguAttempt.attrs = {}
             /\ iguAttempt.LSF = <<>>

C3_Witness ==
    /\ last.op = "igu_construct"
    /\ last.plys = <<"A", "A">>
    /\ err # NoError

\* C7 (as the specification states it): a constructor call or an assignment
\* of dim_x or dim_y that returned left strictly positive dimensions.
C7_DimsStrictlyPositive ==
    (/\ last.op \in {"igu_construct", "set_dim_x", "set_dim_y"}
     /\ err = NoError)
    => IsPositive(igu.dim_x) /\ IsPositive(igu.dim_y)

-----------------------------------------------------------------------------
(* The laminates *)

\* C4 (as the specification states it): a ShearTransferCoefMethod whose
\* ply list was accepted has two glass plies of one elastic modulus.
C4_DifferingERejected ==
    (/\ last.op \in {"construct", "set_ply"}
     /\ err = NoError
     /\ Target.cls = "ShearTransferCoefMethod")
    => layers[Target.ply[1]].E = layers[Target.ply[3]].E

C5_Step ==
    (/\ last'.op \in {"construct", "set_ply"}
     /\ Target'.cls = "ShearTransferCoefMethod")
    => /\ err' = NoError => GlassInterlayerGlass(layers', Target'.ply)
       /\ (err' # NoError /\ ~GlassInterlayerGlass(layers', last'.plys))
          => /\ IsPlyValidationError(err')
             /\ last'.op = "construct"
                => Target'.h_efw = None /\ Target'.h_efs = None
             /\ last'.op = "set_ply" => pkg' = pkg

\* C5: a ShearTransferCoefMethod accepts a ply list only if it is exactly
\* [GlassPly, Interlayer, GlassPly]; for every other list (two glass plies,
\* the interlayer not in the middle, five elements) the constructor and the
\* ply assignment raise the ply-validation ValueError, the new instance has
\* no h_efw and no h_efs, and an existing one keeps what it had.
C5_ShapeRejected == [][C5_Step]_vars

C5_Witness ==
    /\ last.op = "construct"
    /\ pkgAttempt.cls = "ShearTransferCoefMethod"
    /\ last.plys = FiveElementList
    /\ IsPlyValidationError(err)

C6_Step ==
    (/\ last'.op \in {"construct", "set_ply"}
     /\ Target'.cls \in {"MonolithicMethod", "NonCompositeMethod"})
    => /\ err' = NoError => AllGlassSameE(layers', Target'.ply)
       /\ err' # NoError
          => /\ ~AllGlassSameE(layers', last'.plys)
             /\ IsPlyValidationError(err')
             /\ err'[3] \in
                    {"Method is only formulated for a list of GlassPly.",
                     "The plys must have the same elastic modulus."}
             /\ last'.op = "construct"
                => /\ Target'.E = None
                   /\ Target'.h_efw = None
                   /\ Target'.h_efs = None
             /\ last'.op = "set_ply" => pkg' = pkg

\* C6: MonolithicMethod and NonCompositeMethod accept a ply list exactly
\* when it is one GlassPly or more, all of one elastic modulus; for any other
\* list (an Interlayer in it, differing E, no element) the constructor and
\* the ply assignment raise the ply-validation ValueError with the reason,
\* the new instance has no E, h_efw or h_efs, and an existing one keeps what
\* it had.
C6_GlassOnlySameE == [][C6_Step]_vars

C6_Witness ==
    /\ last.op = "construct"
    /\ pkgAttempt.cls = "MonolithicMethod"
    /\ last.plys = <<"g1", "g2">>
    /\ layers["g1"].E # layers["g2"].E
    /\ err = PlyValidationError("The plys must have the same elastic modulus.")

\* C8 (as the specification states it): the panel minimum dimension of every
\* ShearTransferCoefMethod is strictly positive in every state.
C8_PanelMinDimPositive ==
    \A id \in PkgIds :
        pkg[id].cls = "ShearTransferCoefMethod"
        => IsPositive(pkg[id].panel_min_dim)

\* Gamma, h_efw and h_efs of obj are those of a ShearTransferCoefMethod
\* constructed now from the ply list and the panel_min_dim of obj
EqualsFresh(L, obj) ==
    LET fresh == ShearTransferCoefMethod_init(L, obj.ply, obj.panel_min_dim)
    IN  /\ fresh.err = NoError
        /\ fresh.obj.Gamma = obj.Gamma
        /\ fresh.obj.h_efw = obj.h_efw
        /\ fresh.obj.h_efs = obj.h_efs

\* C9 (as the specification states it): after an assignment of panel_min_dim
\* that returned, Gamma, h_efw and h_efs are those of a fresh construction
\* with the same ply list and the new panel_min_dim.
C9_RecomputedAsFresh ==
    (last.op = "set_panel_min_dim" /\ err = NoError)
    => EqualsFresh(layers, pkg[last.id])

\* C9 (amended): after an assignment of panel_min_dim that returned, Gamma,
\* h_efw and h_efs are those of a fresh construction with the same ply list
\* and the new panel_min_dim, provided the elastic modulus of the first ply
\* is still the one the laminate took when its ply list was assigned.
C9_RecomputedAsFreshSameE ==
    (/\ last.op = "set_panel_min_dim"
     /\ err = NoError
     /\ pkg[last.id].E = layers[pkg[last.id].ply[1]].E
     /\ pkg[last.id].beta = Beta96)
    => EqualsFresh(layers, pkg[last.id])

C9_Witness ==
    /\ last.op = "set_panel_min_dim"
    /\ err = NoError
    /\ pkg["A"].panel_min_dim = Num(20)
    /\ pkg["A"].E = layers[pkg["A"].ply[1]].E
    /\ pkg["A"].beta = Beta96
    /\ pkg["A"].Gamma # NewLaminate(layers, "ShearTransferCoefMethod",
                                    pkg["A"].ply, Num(10)).obj.Gamma

-----------------------------------------------------------------------------
(* The load share factors *)

\* the factors of the lites of the buildup, one per position
FactorsOf(obj) == [i \in 1..Len(obj.buildup) |-> obj.LSF[obj.buildup[i]]]

\* C11: whenever the panel has a buildup of one lite or more with its load
\* share factors, the factors of the lites of the buildup sum to 1 and each
\* of them is greater than 0 and at most 1.
C11_LSFSumsToOne ==
    ("_LSF" \in igu.attrs /\ Len(igu.buildup) >= 1)
    => /\ RSum(FactorsOf(igu)) = One
       /\ \A i \in 1..Len(igu.buildup) :
              /\ IsPositive(FactorsOf(igu)[i])
              /\ ~RLt(One, FactorsOf(igu)[i])

C11_Witness ==
    /\ "_LSF" \in igu.attrs
    /\ Len(igu.buildup) = 2
    /\ igu.LSF[igu.buildup[1]] # igu.LSF[igu.buildup[2]]
    /\ pkg[igu.buildup[1]].cls # pkg[igu.buildup[2]].cls

-----------------------------------------------------------------------------
(* GlassPly *)

\* a length in mm
InMm(q) == IF q[2] = "mm" THEN q[1] ELSE RMul(q[1], R(254, 10))

\* the catalog: the nominal thicknesses, in mm, with their minimum in mm
Catalog ==
    {<<k, t_min_lookup_metric[k]>> : k \in DOMAIN t_min_lookup_metric}
        \cup {<<RMul(k, R(254, 10)), t_min_lookup_imperial[k]>> :
                  k \in DOMAIN t_min_lookup_imperial}

Tabulated(q) == \E c \in Catalog : c[1] = InMm(q)

IsCatalogMin(q, t_min) == <<InMm(q), t_min>> \in Catalog

\* C12: GlassPly.from_nominal_thickness returns a ply exactly for the lengths
\* of the two tables; the ply has the given length as t_nom and the tabulated
\* minimum as t_min; for any other length it raises a ValueError that names
\* the length and no ply is constructed.
C12_StrictLookup ==
    last.op = "from_nominal_thickness"
    => /\ err = NoError <=> Tabulated(last.arg)
       /\ err = NoError
          => /\ layers[last.id].kind = "GlassPly"
             /\ layers[last.id].t_nom = last.arg
             /\ IsCatalogMin(last.arg, layers[last.id].t_min)
       /\ err # NoError
          => /\ Len(err) = 4
             /\ err[1] = "ValueError"
             /\ err[3] = last.arg
             /\ layerAttempt = NoLayer

C12_Witness ==
    /\ last.op = "from_nominal_thickness"
    /\ last.arg = Length(Num(7), "mm")
    /\ err = NominalLookupError(Length(Num(7), "mm"))

\* C13 (as the specification states it): every GlassPly has a t_min that is
\* not negative and either no t_nom or a tabulated t_nom with the catalog
\* minimum of that t_nom as t_min, also after a rejected assignment.
C13_OneProvenance ==
    \A p \in GlassIds :
        layers[p].kind = "GlassPly"
        => /\ ~IsNeg(layers[p].t_min)
           /\ \/ layers[p].t_nom = None
              \/ /\ Tabulated(layers[p].t_nom)
                 /\ IsCatalogMin(layers[p].t_nom, layers[p].t_min)

-----------------------------------------------------------------------------
(* The thicknesses of MonolithicMethod and NonCompositeMethod *)

\* t_min ** k of the plies from position i on, added up
RECURSIVE SumOfPowers(_, _, _, _)
SumOfPowers(L, plys, k, i) ==
    IF i > Len(plys) THEN Zero
    ELSE RAdd(RPow(L[plys[i]].t_min, k), SumOfPowers(L, plys, k, i + 1))

\* x <= y for rationals
RLe(x, y) == ~RLt(y, x)

\* C14: a MonolithicMethod whose ply list was accepted has the sum of the
\* t_min of its plies as h_efw, and h_efs has one entry for each ply of the
\* list and no other, each of them that sum.
C14_MonolithicSum ==
    (/\ last.op \in {"construct", "set_ply"}
     /\ err = NoError
     /\ Target.cls = "MonolithicMethod")
    => /\ Target.h_efw = SumOfPowers(layers, Target.ply, 1, 1)
       /\ DOMAIN Target.h_efs = {Target.ply[i] : i \in 1..Len(Target.ply)}
       /\ \A p \in DOMAIN Target.h_efs :
              Target.h_efs[p] = SumOfPowers(layers, Target.ply, 1, 1)

C14_Witness ==
    /\ last.op = "construct"
    /\ err = NoError
    /\ pkg["A"].cls = "MonolithicMethod"
    /\ pkg["A"].ply = <<"g1", "g2">>

\* C15: a NonCompositeMethod whose ply list was accepted has an h_efw whose
\* cube is the sum of the cubes of the t_min of its plies and, for every ply
\* of the list, one h_efs whose square is the sum of their squares; and
\* h_efw <= h_efs <= the sum of the t_min.
C15_NonCompositeRoots ==
    (/\ last.op \in {"construct", "set_ply"}
     /\ err = NoError
     /\ Target.cls = "NonCompositeMethod")
    => LET cube == Pow(Target.h_efw, 3)
           total == SumOfPowers(layers, Target.ply, 1, 1)
       IN  /\ cube = SumOfPowers(layers, Target.ply, 3, 1)
           /\ DOMAIN Target.h_efs
                  = {Target.ply[i] : i \in 1..Len(Target.ply)}
           /\ \A p \in DOMAIN Target.h_efs :
                  LET square == Pow(Target.h_efs[p], 2)
                  IN  /\ square = SumOfPowers(layers, Target.ply, 2, 1)
                      /\ RLe(RPow(cube, 2), RPow(square, 3))
                      /\ RLe(square, RPow(total, 2))

C15_Witness ==
    /\ last.op = "construct"
    /\ err = NoError
    /\ pkg["A"].cls = "NonCompositeMethod"
    /\ pkg["A"].ply = <<"g1", "g2">>
    /\ pkg["A"].h_efw # pkg["A"].h_efs["g1"]

-----------------------------------------------------------------------------
(* Reading G *)

IsStatic(il) == il.G_table = None

NotSetError == ValueError("Reference temperature and/or duration not test.")

\* what a read of G gives on the interlayer il, for the cases of C16
C16_Step ==
    LET il == layers[last'.id]
        key == <<il.temperature, il.duration>>
    IN  last'.op = "read_G" =>
            /\ IsStatic(il) => err' = NoError /\ last'.arg = il.G
            /\ ~IsStatic(il) /\ (il.temperature = None \/ il.duration = None)
                   => /\ err' = NotSetError
                      /\ layers'[last'.id].temperature = il.temperature
                      /\ layers'[last'.id].duration = il.duration
            /\ ~IsStatic(il) /\ key \in DOMAIN il.G_table[1]
                   => err' = NoError /\ last'.arg = il.G_table[1][key]

\* C16: a read of G on a table-backed interlayer raises the ValueError of an
\* unset reference when the temperature, the duration or both are unset, and
\* leaves both as they were; with both set to a key of the table it returns
\* the tabulated value; a static interlayer returns its fixed G.
C16_ReadG == [][C16_Step]_vars

\* a read failed for the duration alone being unset
C16_Witness ==
    /\ last.op = "read_G"
    /\ err = NotSetError
    /\ layers[last.id].temperature # None
    /\ layers[last.id].duration = None

\* the nearest value of the sorted axis S to x
Clamp(x, S) ==
    IF \A v \in S : RLt(x, v) THEN CHOOSE v \in S : \A w \in S : RLe(v, w)
    ELSE IF \A v \in S : RLt(v, x)
    THEN CHOOSE v \in S : \A w \in S : RLe(w, v)
    ELSE x

\* C17: a read of G with the temperature and the duration set to a point
\* that is not a key of the table returns a pressure, and for a point beyond
\* the table in one direction and on a grid line in the other that pressure
\* is the entry at the nearest edge.
C17_InterpolatedRead ==
    LET il == layers[last.id]
        tbl == il.G_table[1]
        key == <<il.temperature, il.duration>>
        edge == <<Clamp(key[1], {k[1] : k \in DOMAIN tbl}),
                  Clamp(key[2], {k[2] : k \in DOMAIN tbl})>>
    IN  /\ last.op = "read_G"
        /\ ~IsStatic(il)
        /\ il.temperature # None
        /\ il.duration # None
        /\ key \notin DOMAIN tbl
        => /\ err = NoError
           /\ last.arg # None
           /\ edge \in DOMAIN tbl => last.arg = tbl[edge]

-----------------------------------------------------------------------------
(* The static case *)

ReferenceOps ==
    {"read_temperature", "set_temperature", "read_duration", "set_duration"}

C18_Step ==
    last'.op \in ReferenceOps /\ IsStatic(layers[last'.id]) =>
        /\ err' = StaticCaseError
        /\ layers'[last'.id].G = layers[last'.id].G
        /\ layers'[last'.id].t = layers[last'.id].t
        /\ layers' = layers

\* C18: on an interlayer with a fixed shear modulus a read and an assignment
\* of the temperature or of the duration raise the ValueError of the static
\* case, and G and the thickness stay as they were.
C18_StaticCase == [][C18_Step]_vars

\* an assignment of the temperature was refused on a static interlayer
C18_Witness ==
    /\ last.op = "set_temperature"
    /\ err = StaticCaseError
    /\ IsStatic(layers[last.id])
    /\ layers[last.id].G # None

-----------------------------------------------------------------------------
(* The product registry *)

\* an entry for every combination of the temperatures and the durations
IsRectangular(data) ==
    \A k1 \in DOMAIN data : \A k2 \in DOMAIN data :
        <<k1[1], k2[2]>> \in DOMAIN data

NotRectangularError == ValueError("The provided data is not rectangular.")

C19_Step ==
    LET name == last'.id
        data == last'.arg[1]
    IN  last'.op = "register" =>
            /\ IsRectangular(data) =>
                   /\ err' = NoError
                   /\ name \in DOMAIN registry'
                   /\ registry'[name] = data
            /\ ~IsRectangular(data) =>
                   /\ err' = NotRectangularError
                   /\ registry' = registry

\* C19: a registration is accepted exactly when the table has an entry for
\* every combination of its temperatures and durations; otherwise it raises
\* ValueError 'The provided data is not rectangular.' and the registry, the
\* earlier entry of that name included, is as it was.
C19_Rectangular == [][C19_Step]_vars

\* a table with a missing entry was refused under a name that has an entry
C19_Witness ==
    /\ last.op = "register"
    /\ err = NotRectangularError
    /\ last.arg = Some(invalid_data)
    /\ last.id \in DOMAIN registry
    /\ registry[last.id] = data_PVB

NotRegisteredError ==
    ValueError("The product is not registered in the product registry.")

\* the registry after a step, from the registry before it
C20_RegistryStep ==
    LET name == last'.id
    IN  CASE last'.op = "register" /\ err' = NoError ->
                 /\ DOMAIN registry' = (DOMAIN registry) \cup {name}
                 /\ registry'[name] = last'.arg[1]
                 /\ \A n \in (DOMAIN registry) \ {name} :
                        registry'[n] = registry[n]
          [] last'.op = "deregister" ->
                 /\ err' = NoError
                 /\ DOMAIN registry' = (DOMAIN registry) \ {name}
                 /\ \A n \in DOMAIN registry' : registry'[n] = registry[n]
                 /\ name \notin DOMAIN registry => registry' = registry
          [] OTHER -> registry' = registry

\* from_product_table(t, name) with t > 0 against the registry
C20_LookupStep ==
    LET t == last'.arg[1]
        name == last'.arg[2]
    IN  last'.op = "from_product_table" /\ RLt(Zero, t) =>
            IF name \in DOMAIN registry
            THEN /\ err' = NoError
                 /\ layers'[last'.id].G_table = Some(registry[name])
                 /\ layers'[last'.id].t = t
            ELSE /\ err' = NotRegisteredError
                 /\ layers' = layers

\* C20 (as the specification states it): the registry holds for each name
\* the table of its last successful registration unless a deregistration
\* followed it; from_product_table with t > 0 succeeds exactly for a name
\* the registry holds and uses that table, and otherwise raises ValueError
\* 'The product is not registered in the product registry.'; a
\* deregistration of an unknown name changes nothing.
C20_Registry == [][C20_RegistryStep /\ C20_LookupStep]_vars

-----------------------------------------------------------------------------
(* Roarks4side *)

PlateSetOps ==
    {"plate_set_dim_x", "plate_set_dim_y", "plate_set_t", "plate_set_E"}

IsValueError(e) == e[1] = "ValueError"

\* a call with a zero or negative value raised ValueError and changed nothing
C21_Step ==
    /\ (last'.op \in PlateSetOps /\ ~IsPositive(last'.arg))
           => IsValueError(err') /\ rk4s' = rk4s
    /\ (last'.op = "plate_construct"
        /\ \E i \in 1..4 : ~IsPositive(last'.arg[i]))
           => IsValueError(err') /\ rk4s' = rk4s
    /\ rk4s' # NoPlate
           => /\ IsPositive(rk4s'.dim_x)
              /\ IsPositive(rk4s'.dim_y)
              /\ IsPositive(rk4s'.t)
              /\ IsPositive(rk4s'.E)

\* C21 (as the specification states it): the setters of dim_x, dim_y, t and
\* E, in the constructor and afterwards, raise ValueError for a zero or
\* negative value and leave the plate and its aspect ratio as they were;
\* the values a plate holds are strictly positive.
C21_NonPositiveRejected == [][C21_Step]_vars

ResultOps == {"stress_max", "deflection_max", "reaction_max"}

\* what the coefficient of the table ys is multiplied with in the result of
\* the method op, for the load q
Factor(op, r, q) ==
    CASE op = "stress_max" -> RMul(q, RPow(RMul(r.b, RInv(r.t)), 2))
      [] op = "deflection_max" ->
             RNeg(RMul(RMul(q, RPow(r.b, 4)),
                       RInv(RMul(r.E, RPow(r.t, 3)))))
      [] op = "reaction_max" -> RMul(q, r.b)

Column(op) ==
    CASE op = "stress_max" -> beta
      [] op = "deflection_max" -> alpha
      [] op = "reaction_max" -> gamma

\* a result was returned by a plate with positive sides, t and E and a
\* ratio of 5 or more
AtOrBeyondFive ==
    /\ last.op \in ResultOps
    /\ err = NoError
    /\ IsPositive(rk4s.b)
    /\ IsPositive(rk4s.t)
    /\ IsPositive(rk4s.E)
    /\ RLe(Num(5), rk4s.ratio)

\* C22 (as the specification states it): for a ratio of 5 or more the
\* results are those of the coefficients of the row of the ratio 5,
\* whatever the ratio.
C22_ClampedAtFive ==
    AtOrBeyondFive =>
        \E q \in LoadValues :
            last.arg = RMul(Column(last.op)[9], Factor(last.op, rk4s, q))

\* the ratio up to which the coefficient of a result is the row of the
\* ratio 5 for certain: the interpolated term stays below half a unit in
\* the last place up to about 236 (beta), 351 (alpha) and 560 (gamma)
ClampedUpTo(op) ==
    CASE op = "stress_max" -> Num(200)
      [] op = "deflection_max" -> Num(300)
      [] op = "reaction_max" -> Num(500)

\* C22 (amended): for a ratio r of 5 or more (below 1e16) the coefficient is
\* the linear interpolation between the row of the ratio 5 and the row of
\* the key 1e16, c5 + (c16 - c5) * (r - 5) / (1e16 - 5), computed in
\* doubles: the row of the ratio 5 while the second term is lost in the
\* rounding (ratios up to 200 at least), and off it by the second term for
\* beta from the ratio 240 on.
C22_InterpolatedBeyondFive ==
    AtOrBeyondFive =>
        \E q \in LoadValues :
            LET ys == Column(last.op)
                f == Factor(last.op, rk4s, q)
                k == RMul(RMul(RSub(ys[10], ys[9]),
                               RSub(rk4s.ratio, Num(5))), f)
            IN  /\ RLe(rk4s.ratio, ClampedUpTo(last.op))
                   => last.arg = RMul(ys[9], f)
                /\ (last.op = "stress_max" /\ RLe(Num(240), rk4s.ratio))
                   => /\ Len(last.arg) = 5
                      /\ <<1, last.arg[2], last.arg[3]>> = RMul(ys[9], f)
                      /\ <<1, last.arg[4], last.arg[5]>> = k
                      /\ ~IsZero(k)

\* the stress of a plate with the ratio 256
C22_Witness ==
    /\ AtOrBeyondFive
    /\ last.op = "stress_max"
    /\ rk4s.ratio = Num(256)

\* the larger and the smaller of two lengths
Larger(x, y) == IF RLt(x, y) THEN y ELSE x
Smaller(x, y) == IF RLt(x, y) THEN x ELSE y

\* the three results of a plate for the load q
Results(r, q) ==
    <<Roarks4side_stress_max(r, q), Roarks4side_deflection_max(r, q),
      Roarks4side_reaction_max(r, q)>>

\* the plate with the values of dim_x and dim_y exchanged by two assignments
Exchanged(r) ==
    Roarks4side_dim_y_setter(Roarks4side_dim_x_setter(r, r.dim_y).obj,
                             r.dim_x).obj

\* C27: a plate with positive sides (after the constructor and after any
\* successful assignments of dim_x and dim_y) has the ratio of its larger
\* to its smaller side, which is 1 or more; the side its results use is the
\* smaller one; the results of the plate with dim_x and dim_y exchanged are
\* the same.
C27_AspectRatio ==
    (/\ rk4s # NoPlate
     /\ IsPositive(rk4s.dim_x)
     /\ IsPositive(rk4s.dim_y))
    => /\ rk4s.ratio = RMul(Larger(rk4s.dim_x, rk4s.dim_y),
                            RInv(Smaller(rk4s.dim_x, rk4s.dim_y)))
       /\ RLe(One, rk4s.ratio)
       /\ rk4s.b = Smaller(rk4s.dim_x, rk4s.dim_y)
       /\ \A q \in LoadValues :
              /\ Results(Exchanged(rk4s), q) = Results(rk4s, q)
              /\ last.op \in ResultOps /\ err = NoError /\ IsPositive(rk4s.t)
                 /\ IsPositive(rk4s.E) /\ ~RLt(Num(5), rk4s.ratio)
                     => last.arg = RMul(interp1d(Column(last.op), rk4s.ratio),
                                        Factor(last.op, rk4s, q))

\* a result of a plate whose dim_x is the smaller side
C27_Witness ==
    /\ last.op = "stress_max"
    /\ err = NoError
    /\ rk4s.dim_x = Num(2)
    /\ rk4s.dim_y = Num(3)
    /\ rk4s.ratio = R(3, 2)

-----------------------------------------------------------------------------
(* The glass type registry *)

\* C23 (as the specification states it): from_name and from_abbr raise
\* ValueError for a name, respectively an abbreviation, the registry does
\* not hold, and otherwise return a GlassType with the registered parameters.
C23_Lookup ==
    /\ last.op = "from_name" =>
           IF last.id \in DOMAIN _glass_type_registry
           THEN err = NoError /\ held = _glass_type_registry[last.id]
           ELSE IsValueError(err)
    /\ last.op = "from_abbr" =>
           IF last.id \in DOMAIN _glass_type_abbr
           THEN /\ err = NoError
                /\ held = _glass_type_registry[_glass_type_abbr[last.id]]
           ELSE IsValueError(err)

\* C24 (as the specification states it): the dictionary get_abbr_data
\* returns has the registered abbreviations for keys and the name of each
\* for value; a change of the returned dictionary leaves the registry alone.
C24_Step ==
    /\ last'.op = "get_abbr_data" =>
           /\ DOMAIN held' = DOMAIN _glass_type_abbr
           /\ \A a \in DOMAIN _glass_type_abbr :
                  held'[a] = _glass_type_abbr[a]
    /\ last'.op = "del" =>
           /\ _glass_type_abbr' = _glass_type_abbr
           /\ _glass_type_registry' = _glass_type_registry

C24_AbbrCopy == [][C24_Step]_vars

-----------------------------------------------------------------------------
(* Laminates and panels that change after they were set up *)

\* pkg.E * pkg.h_efw^3 over the sum of it over the buildup, with the values
\* the laminates have now
CurrentShare(P, buildup, id) ==
    RMul(Stiffness(P[id]),
         RInv(RSum([i \in 1..Len(buildup) |-> Stiffness(P[buildup[i]])])))

\* C25 (as the specification states it): the load share factor solve() has
\* for each laminate of the buildup is E * h_efw^3 over the sum of it over
\* the buildup, with the values the laminates have when solve() runs.
C25_ShareAtSolve ==
    (last.op = "solve" /\ IsConstructed(igu))
    => \A id \in SeqToSet(igu.buildup) :
           igu.LSF[id] = CurrentShare(pkg, igu.buildup, id)

\* C26 (as the specification states it): after a reassignment of the
\* temperature or the duration of the interlayer of a ShearTransferCoefMethod
\* that leaves G readable, Gamma, h_efw and h_efs of the laminate are those
\* computed from the G the interlayer has now.
C26_FollowsG ==
    (/\ last.op \in {"set_temperature", "set_duration"}
     /\ err = NoError
     /\ pkg["A"].cls = "ShearTransferCoefMethod"
     /\ pkg["A"].ply[2] = last.id
     /\ Interlayer_G(layers[last.id]).err = NoError)
    => EqualsFresh(layers, pkg["A"])

\* C28 (as the specification states it): a panel never holds a buildup with
\* one laminate twice; an assignment of such a buildup raises and leaves the
\* buildup and the load share factors as they were.
C28_Step ==
    /\ IsConstructed(igu') => ~Repeats(igu'.buildup)
    /\ (last'.op = "set_buildup" /\ Repeats(last'.plys))
       => /\ err' # NoError
          /\ igu'.buildup = igu.buildup
          /\ igu'.LSF = igu.LSF

C28_NoRepeatAfterAssignment == [][C28_Step]_vars

\* the glass plies of the laminates of a buildup
PliesOf(P, buildup) ==
    UNION {{p \in SeqToSet(P[id].ply) : IsGlassPly(layers, p)} :
               id \in SeqToSet(buildup)}

\* C29 (as the specification states it): after every solve() the keys of the
\* deflection map are the laminates of the buildup of that moment and the
\* keys of the stress map are the glass plies of those laminates.
C29_MapsOfCurrentBuildup ==
    (last.op = "solve" /\ IsConstructed(igu))
    => /\ DOMAIN igu.deflection = SeqToSet(igu.buildup)
       /\ DOMAIN igu.stress = PliesOf(pkg, igu.buildup)

\* E, h_efw and h_efs of obj are those of a laminate of the same formulation
\* constructed now from the ply list of obj
EqualsFreshLaminate(L, obj) ==
    LET fresh == NewLaminate(L, obj.cls, obj.ply, obj.panel_min_dim)
    IN  /\ fresh.err = NoError
        /\ fresh.obj.E = obj.E
        /\ fresh.obj.h_efw = obj.h_efw
        /\ fresh.obj.h_efs = obj.h_efs

\* what an assignment of a ply list to the laminate id owes when it raises
PlyRefused(id) ==
    IF _validate(layers, pkg[id].cls, last'.plys).valid
    THEN ~IsPlyValidationError(err')
    ELSE /\ IsPlyValidationError(err')
         /\ pkg'[id].ply = pkg[id].ply
         /\ pkg'[id].E = pkg[id].E
         /\ pkg'[id].h_efw = pkg[id].h_efw
         /\ pkg'[id].h_efs = pkg[id].h_efs

\* C30 (as the specification states it): an assignment of a ply list to an
\* existing laminate that the validation of its formulation refuses raises
\* the ply-validation ValueError and leaves the ply list, E, h_efw and h_efs
\* as they were; one that returns has stored a list the validation accepts,
\* and E, h_efw and h_efs are those of a laminate constructed from that list.
C30_Step ==
    \A id \in PkgIds :
        (last'.op = "set_ply" /\ last'.id = id) =>
            /\ err' # NoError => PlyRefused(id)
            /\ err' = NoError =>
                   /\ _validate(layers', pkg'[id].cls, pkg'[id].ply).valid
                   /\ EqualsFreshLaminate(layers', pkg'[id])

C30_PlyReplacement == [][C30_Step]_vars

\* what an assignment of a list the validation accepts owes when the
\* recalculation raises: the list and the elastic modulus of its first ply
\* are stored, h_efw and h_efs are those of before, and the construction of
\* a laminate from the list raises the same exception
PlyStoredThenRaised(id) ==
    /\ ~IsPlyValidationError(err')
    /\ pkg'[id].ply = last'.plys
    /\ pkg'[id].E = layers[last'.plys[1]].E
    /\ pkg'[id].h_efw = pkg[id].h_efw
    /\ pkg'[id].h_efs = pkg[id].h_efs
    /\ NewLaminate(layers, pkg[id].cls, last'.plys,
                   pkg[id].panel_min_dim).err = err'

\* C30 (amended): an assignment of a ply list to an existing laminate that
\* the validation of its formulation refuses raises the ply-validation
\* ValueError and leaves the ply list, E, h_efw and h_efs as they were; one
\* of a list the validation accepts either returns, and E, h_efw and h_efs
\* are those of a laminate constructed from that list (for a
\* ShearTransferCoefMethod while its beta is the 9.6 the constructor sets),
\* or raises the exception of the recalculation with the list and E stored
\* and h_efw and h_efs left as they were.
C30_StepSameBeta ==
    \A id \in PkgIds :
        (last'.op = "set_ply" /\ last'.id = id) =>
            IF err' = NoError
            THEN /\ _validate(layers', pkg'[id].cls, pkg'[id].ply).valid
                 /\ (pkg'[id].cls = "ShearTransferCoefMethod"
                        => pkg'[id].beta = Beta96)
                    => EqualsFreshLaminate(layers', pkg'[id])
            ELSE IF _validate(layers, pkg[id].cls, last'.plys).valid
            THEN PlyStoredThenRaised(id)
            ELSE PlyRefused(id)

C30_PlyReplacementSameBeta == [][C30_StepSameBeta]_vars

\* a refused assignment of a ply list to a laminate that has one
C30_Witness ==
    /\ last.op = "set_ply"
    /\ IsPlyValidationError(err)
    /\ pkg[last.id].has_ply
    /\ pkg[last.id].h_efw # None

====
